---- MODULE Spec2Model ----
(***************************************************************************)
(* Call interception, session context and replay engine of the instrument  *)
(* package (instrument/src/instrument_utils.ts).                           *)
(*                                                                         *)
(* One decorated method (LogMethod) is invoked inside the ambient session. *)
(* An invocation is split at the point where the original implementation   *)
(* runs: Invoke covers the wrapper up to original.apply (session and sink  *)
(* capture, pre-call replay peek, argument capture), the Complete* actions *)
(* cover the post-call part (record build, applyReplayIfAvailable, sink,   *)
(* value handed to the caller).  Other invocations may run in between:     *)
(* nested in a synchronous original, or interleaved at an await.           *)
(***************************************************************************)
EXTENDS Integers, Sequences, FiniteSets, TLC

VARIABLES
    options,    \* InstrumentOptions given to LogMethod at decoration time
    names,      \* getParamNames(original) || []
    sessions,   \* heap of InstrumentSession objects, index = object identity
    store,      \* sessionStore.getStore(): 0 = undefined, else index in sessions
    calls,      \* invocations between original.apply and their post-call step
    done,       \* finished invocations, in completion order (observations)
    now,        \* Date.now()
    started,    \* number of invocations started so far
    epoch,      \* number of session / replay-set changes so far
    contexts,   \* callContext stores of finished invocations (they outlive the call)
    tasks,      \* execution branches: the sessionStore value each of them sees
    fetch,      \* the record-store request of a pending startInstrumentSession
    last,       \* the last session API operation and what its caller observed
    plain,      \* calls through logCall / logInline / instrument wrappers
    evals       \* the evaluation in hand: metrics, records and results

vars == <<options, names, sessions, store, calls, done, now, started, epoch,
          contexts, tasks, fetch, last, plain, evals>>

----------------------------------------------------------------------------
(* Bounds of the model *)

MaxCalls == 2
MaxTasks == 3
MaxSessions == 2

----------------------------------------------------------------------------
(* JSON values: integers stand for themselves, plus the two JS non-values. *)

Undef == -1
Null == 0

\* An optional dictionary (payload.args, payload.vars): absent, or one map.
NoMap == <<>>
Some(m) == <<m>>
EmptyMap == [k \in {} |-> Null]

\* x ?? y
Coalesce(x, y) == IF x = Undef \/ x = Null THEN y ELSE x

\* m ?? n for optional dictionaries
CoalesceMap(m, n) == IF m = NoMap THEN n ELSE m

\* Values JSON.stringify throws on (a circular object, a BigInt), the
\* string safeStringify returns for them, and a value JSON.stringify
\* returns undefined for (a function, a symbol)
Unserializable == -2
SentinelString == -3
Callback == -4

\* safeStringify with no catch: no string stands for the value
safeStringifyUnguarded(value) ==
    IF value = Unserializable THEN [text |-> FALSE, json |-> FALSE, of |-> Unserializable]
    ELSE IF value = Undef \/ value = Callback THEN [text |-> FALSE, json |-> FALSE, of |-> Undef]
    ELSE [text |-> TRUE, json |-> TRUE, of |-> value]

\* safeStringify(value, redact): the JSON text of value (json), a string
\* that is not JSON (the sentinel), or undefined (no text)
safeStringify(value) ==
    IF value = Unserializable THEN [text |-> TRUE, json |-> FALSE, of |-> SentinelString]
    ELSE IF value = Undef \/ value = Callback THEN [text |-> FALSE, json |-> FALSE, of |-> Undef]
    ELSE [text |-> TRUE, json |-> TRUE, of |-> value]

\* JSON.parse of a JSON text
parse(s) == s.of

\* toJSONish(value, redact): JSON.parse(s), or s itself when that throws
toJSONish(v) ==
    LET s == safeStringify(v)
    IN IF s.json THEN parse(s) ELSE s.of

\* an absent string field (project, session, error)
Absent == "undefined"
ErrorText == "Error: boom-sync"

\* Thrown values: stack is err?.stack ("" when there is none), text is String(err)
Boom == [stack |-> ErrorText, text |-> "Error: boom-sync"]
SinkError == [stack |-> "Error: sink down", text |-> "Error: sink down"]
NoError == [stack |-> "", text |-> ""]

\* errorText that leaves payload.error unset
errorTextUnset(err) == Absent

\* err?.stack || String(err)
errorText(err) == IF err.stack # "" THEN err.stack ELSE err.text

----------------------------------------------------------------------------
(* Labels are strings, kept as sequences of tokens with "." and "@" as     *)
(* separator tokens so that includes / split behave as in the source.      *)

includes(label, tok) == \E i \in 1..Len(label) : label[i] = tok

LastIndexOf(label, tok) ==
    IF includes(label, tok)
    THEN CHOOSE i \in 1..Len(label) :
            label[i] = tok /\ \A j \in (i+1)..Len(label) : label[j] # tok
    ELSE 0

IndexOf(label, tok) ==
    IF includes(label, tok)
    THEN CHOOSE i \in 1..Len(label) :
            label[i] = tok /\ \A j \in 1..(i-1) : label[j] # tok
    ELSE Len(label) + 1

\* label.split('.').pop()
lastSeg(label) == SubSeq(label, LastIndexOf(label, ".") + 1, Len(label))

\* label.split('@')[0]
baseOf(label) == SubSeq(label, 1, IndexOf(label, "@") - 1)

----------------------------------------------------------------------------
(* InstrumentType and the decorated method *)

None == "None"
Trace == "Trace"
TraceAndReplay == "TraceAndReplay"
InstrumentType == {None, Trace, TraceAndReplay}

SvcCompute == <<"Svc", ".", "compute">>
Compute == <<"compute">>

\* `arg${i}` for the 0-based position i
argKey(i) == CASE i = 0 -> "arg0" [] i = 1 -> "arg1" [] OTHER -> "arg2"

\* names[i] of the source (0-based), "" when the array has no such entry
nameAt(ns, i) == IF i + 1 <= Len(ns) THEN ns[i + 1] ELSE ""

\* paramMap[key] ?? InstrumentType.None
paramMode(paramMap, key) == IF key \in DOMAIN paramMap THEN paramMap[key] ELSE None

\* The original implementation: combine(a, b), its result determined by
\* the arguments it is actually given.
original(args) == 10 * args[1] + args[2]

\* Originals: combine, one that returns a value JSON.stringify throws on
\* and one that returns a function
Combine == "combine"
Opaque == "opaque"
Factory == "factory"
run(impl, args) ==
    CASE impl = Combine -> original(args)
      [] impl = Opaque -> Unserializable
      [] OTHER -> Callback

\* { a: TraceAndReplay, b: m }
paramsAB(ma, mb) == [k \in {"a", "b"} |-> IF k = "a" THEN ma ELSE mb]

\* The parameter names found by getParamNames and the params map given
Signatures ==
    { [names |-> <<"a", "b">>, params |-> EmptyMap],
      [names |-> <<"a", "b">>, params |-> paramsAB(TraceAndReplay, Trace)],
      [names |-> <<"a", "b">>, params |-> paramsAB(None, TraceAndReplay)],
      [names |-> <<>>, params |-> [k \in {"arg0"} |-> Trace]] }

ReturnOptions ==
    { [return |-> TraceAndReplay, replayOverrideReturn |-> TRUE],
      [return |-> TraceAndReplay, replayOverrideReturn |-> FALSE],
      [return |-> Trace, replayOverrideReturn |-> TRUE],
      [return |-> None, replayOverrideReturn |-> TRUE] }

\* options.sink: not given, or a function of the caller that throws
NoSinkOption == "none"
ThrowingSink == "throws"

Options(l, sg, ro, a, t) ==
    [ label |-> l, params |-> sg.params, return |-> ro.return,
      replayOverrideReturn |-> ro.replayOverrideReturn,
      includeThis |-> t, async |-> a, names |-> sg.names, sink |-> NoSinkOption ]

RefSignature == [names |-> <<"a", "b">>, params |-> paramsAB(TraceAndReplay, Trace)]
RefReturn == [return |-> TraceAndReplay, replayOverrideReturn |-> TRUE]

\* The decorations considered: the reference decoration (Svc.compute,
\* { a: TraceAndReplay, b: Trace }, TraceAndReplay with override), sync and
\* async, and every decoration that differs from it in the label, in the
\* signature (sync only) or in the return options (these with includeThis).
OptionSets ==
    { Options(l, RefSignature, RefReturn, a, FALSE) : l \in {SvcCompute, Compute}, a \in BOOLEAN }
    \cup { Options(SvcCompute, sg, RefReturn, FALSE, FALSE) : sg \in Signatures }
    \cup { Options(SvcCompute, RefSignature, ro, a, TRUE) : ro \in ReturnOptions, a \in BOOLEAN }

\* The reference decoration with a sink of the caller that throws
SinkOptionSets ==
    { [Options(SvcCompute, RefSignature, RefReturn, a, FALSE) EXCEPT !.sink = ThrowingSink] :
          a \in BOOLEAN }

LiveArgs == { <<1, 2>> }
ThisValue == 3

----------------------------------------------------------------------------
(* Replay units a caller may install.  timestamp tells the units apart.    *)

ReplayUnit(tag, ts, a, v, r) ==
    [ tagId |-> tag, timestamp |-> ts,
      payload |-> [ args |-> a, vars |-> v, return |-> r ] ]

V1 == [k \in {"v1"} |-> [value |-> 42, at |-> "v1@loc"]]

RU1 == ReplayUnit(SvcCompute, 1, Some(paramsAB(5, 6)), Some(V1), 7)
RU2 == ReplayUnit(SvcCompute, 2, Some([k \in {"arg0", "b"} |-> IF k = "b" THEN Null ELSE 6]), NoMap, Null)
RU3 == ReplayUnit(Compute, 3, Some([k \in {"arg1"} |-> 5]), NoMap, Undef)
RU4 == ReplayUnit(SvcCompute, 4, NoMap, NoMap, Undef)
RU5 == ReplayUnit(SvcCompute, 5, NoMap, NoMap, 8)

ReplaySets ==
    { <<RU1, RU2>>, <<RU3>>, <<RU3, RU1>>, <<RU5, RU4>> }

----------------------------------------------------------------------------
(* setInstrumentSessionReplay: the index by tagId and by alias *)

Get(m, k) == IF k \in DOMAIN m THEN m[k] ELSE <<>>

Push(m, k, u) ==
    [x \in (DOMAIN m) \cup {k} |-> IF x = k THEN Append(Get(m, k), u) ELSE m[x]]

\* indexUnits without the alias entries
RECURSIVE indexUnitsNoAlias(_, _)
indexUnitsNoAlias(units, byTag) ==
    IF units = <<>> THEN byTag
    ELSE indexUnitsNoAlias(Tail(units), Push(byTag, Head(units).tagId, Head(units)))

RECURSIVE indexUnits(_, _)
indexUnits(units, byTag) ==
    IF units = <<>> THEN byTag
    ELSE LET u == Head(units)
             primary == Push(byTag, u.tagId, u)
             seg == lastSeg(u.tagId)
             aliased == IF includes(u.tagId, ".") /\ seg # u.tagId
                        THEN Push(primary, seg, u)
                        ELSE primary
         IN indexUnits(Tail(units), aliased)

NoSession == 0

Session(project, sessionId) ==
    [ project |-> project, sessionId |-> sessionId,
      hasReplay |-> FALSE, replay |-> EmptyMap, replayCursor |-> EmptyMap,
      units |-> <<>>, installed |-> <<>>, wasCleared |-> FALSE ]

\* options.sink ?? sess?.sink ?? defaultSink, as the destination of the unit
selectSink(opts, st) ==
    IF opts.sink # NoSinkOption THEN [kind |-> "options", sess |-> NoSession]
    ELSE IF st # NoSession THEN [kind |-> "session", sess |-> st]
    ELSE [kind |-> "default", sess |-> NoSession]

cursorOf(sess, label) ==
    IF label \in DOMAIN sess.replayCursor THEN sess.replayCursor[label] ELSE 0

\* a || b for two lists of which <<>> stands for undefined
OrElse(a, b) == IF a # <<>> THEN a ELSE b

Min(a, b) == IF a <= b THEN a ELSE b

----------------------------------------------------------------------------
(* Replay lookup *)

\* LogMethod, pre-call: the list consulted for the argument override
peekList(replay, label) ==
    LET first == OrElse(Get(replay, label),
                        IF includes(label, ".") THEN Get(replay, lastSeg(label)) ELSE <<>>)
        base == baseOf(label)
    IN IF first = <<>> /\ includes(label, "@")
       THEN OrElse(Get(replay, base),
                   IF includes(base, ".") THEN Get(replay, lastSeg(base)) ELSE <<>>)
       ELSE first

\* applyReplayIfAvailable: the list consulted for the record merge
replayList(replay, label) ==
    LET exact == Get(replay, label)
        byAlias == IF exact = <<>> /\ includes(label, ".")
                   THEN Get(replay, lastSeg(label)) ELSE exact
        base == baseOf(label)
    IN IF byAlias = <<>> /\ includes(label, "@")
       THEN OrElse(Get(replay, base), Get(replay, lastSeg(base)))
       ELSE byAlias

\* list[Math.min(cursor, list.length - 1)], as a 1-based position
usedIndex(list, cursor) == Min(cursor, Len(list) - 1) + 1

\* replayArgsMap[key] !== undefined
defined(argsMap, key) == key \in DOMAIN argsMap /\ argsMap[key] # Undef

\* overrideArg with the positional key taken one position too far
overrideArgShifted(argsMap, ns, args, i) ==
    IF nameAt(ns, i) # "" /\ defined(argsMap, nameAt(ns, i)) THEN argsMap[nameAt(ns, i)]
    ELSE IF defined(argsMap, argKey(i + 1)) THEN argsMap[argKey(i + 1)]
    ELSE args[i + 1]

\* The value position i (0-based) gets in the pre-call override loop
overrideArg(argsMap, ns, args, i) ==
    IF nameAt(ns, i) # "" /\ defined(argsMap, nameAt(ns, i)) THEN argsMap[nameAt(ns, i)]
    ELSE IF defined(argsMap, argKey(i)) THEN argsMap[argKey(i)]
    ELSE args[i + 1]

NoPeek == [matched |-> FALSE, index |-> 0, unit |-> <<>>]

\* LogMethod, pre-call: which replay unit is peeked (cursor not advanced)
peek(sess, label) ==
    IF ~sess.hasReplay THEN NoPeek
    ELSE LET list == peekList(sess.replay, label)
         IN IF list = <<>> THEN NoPeek
            ELSE LET idx == usedIndex(list, cursorOf(sess, label))
                 IN [matched |-> TRUE, index |-> idx, unit |-> <<list[idx]>>]

\* LogMethod, pre-call: the argument list handed to the original
preCallArgs(pk, ns, args) ==
    IF pk.matched /\ pk.unit[1].payload.args # NoMap
    THEN [p \in 1..Len(args) |-> overrideArg(pk.unit[1].payload.args[1], ns, args, p - 1)]
    ELSE args

\* LogMethod: the captured argument dictionary (payload.args)
RECURSIVE captureArgs(_, _, _, _)
captureArgs(paramMap, ns, args, i) ==
    IF i >= Len(args) THEN EmptyMap
    ELSE LET rest == captureArgs(paramMap, ns, args, i + 1)
             key == IF nameAt(ns, i) # "" THEN nameAt(ns, i) ELSE argKey(i)
             mode == paramMode(paramMap, key)
         IN IF mode = Trace \/ mode = TraceAndReplay
            THEN [k \in (DOMAIN rest) \cup {key} |->
                     IF k = key THEN toJSONish(args[i + 1]) ELSE rest[k]]
            ELSE rest

\* merge spreading the replay unit instead of the original unit
mergeOntoReplay(originalUnit, replayUnit) ==
    [ originalUnit EXCEPT
        !.timestamp = replayUnit.timestamp,
        !.payload = [ originalUnit.payload EXCEPT
            !.args = CoalesceMap(replayUnit.payload.args, originalUnit.payload.args),
            !.vars = CoalesceMap(replayUnit.payload.vars, originalUnit.payload.vars),
            !.return = Coalesce(replayUnit.payload.return, originalUnit.payload.return),
            !.replayed = TRUE ] ]

\* merged of applyReplayIfAvailable
merge(originalUnit, replayUnit) ==
    [ originalUnit EXCEPT
        !.payload = [ originalUnit.payload EXCEPT
            !.args = CoalesceMap(replayUnit.payload.args, originalUnit.payload.args),
            !.vars = CoalesceMap(replayUnit.payload.vars, originalUnit.payload.vars),
            !.return = Coalesce(replayUnit.payload.return, originalUnit.payload.return),
            !.replayed = TRUE ] ]

\* sess.replay after a lookup that consumed the record it used: the list
\* loses its head
replayAfterShift(replay, label) ==
    [k \in DOMAIN replay |->
        IF replay[k] = replayList(replay, label) /\ Len(replay[k]) > 1
        THEN Tail(replay[k]) ELSE replay[k]]

\* sess.replay after applyReplayIfAvailable used list[Math.min(cursor,
\* list.length - 1)] for label: the list is read by index, the record is
\* read field by field, and neither is written
replayAfter(replay, label) == replay

NoReplayResult(sess, originalUnit) ==
    [ matched |-> FALSE, index |-> 0, replayUnit |-> <<>>, unit |-> originalUnit,
      overrideReturn |-> Undef, replayCursor |-> sess.replayCursor ]

\* applyReplayIfAvailable(payload, originalUnit): the merged unit, the return
\* override and the session's cursor table after the call
applyReplayIfAvailable(sess, label, originalUnit) ==
    IF ~sess.hasReplay THEN NoReplayResult(sess, originalUnit)
    ELSE LET list == replayList(sess.replay, label)
         IN IF list = <<>> THEN NoReplayResult(sess, originalUnit)
            ELSE LET cursor == cursorOf(sess, label)
                     idx == usedIndex(list, cursor)
                     replayUnit == list[idx]
                 IN [ matched |-> TRUE, index |-> idx, replayUnit |-> <<replayUnit>>,
                      unit |-> merge(originalUnit, replayUnit),
                      overrideReturn |-> replayUnit.payload.return,
                      replayCursor |->
                          [l \in (DOMAIN sess.replayCursor) \cup {label} |->
                              IF l = label THEN cursor + 1 ELSE sess.replayCursor[l]] ]

\* shouldOverride without the replayOverrideReturn option
shouldOverrideAlways(opts, rr) ==
    opts.return = TraceAndReplay /\ rr.overrideReturn # Undef

\* shouldOverride / shouldOverrideSync
shouldOverride(opts, rr) ==
    opts.return = TraceAndReplay /\ opts.replayOverrideReturn /\ rr.overrideReturn # Undef

\* The LogUnit built from the call's payload
buildUnit(payload, end) ==
    [ tagId |-> payload.label, timestamp |-> payload.start,
      session |-> payload.sessionId, project |-> payload.project,
      payload |-> [ args |-> payload.args, thisArg |-> payload.thisArg,
                    vars |-> payload.vars, return |-> payload.return,
                    error |-> payload.error, end |-> end,
                    durationMs |-> end - payload.start, replayed |-> FALSE ] ]

----------------------------------------------------------------------------
(* State machine *)

NoFetch == [phase |-> "idle", sess |-> NoSession, cause |-> "", body |-> <<>>,
            got |-> 0, returned |-> <<>>]
NoOp == [op |-> "none", branch |-> 0, threw |-> FALSE, prev |-> "none",
         before |-> <<>>, views |-> <<>>]

\* The session API operation op of the main program: whether it threw and,
\* for an operation observed in its context, the operation before it (prev)
\* and a snapshot taken before it
Did(op, threw, prev, snapshot) ==
    last' = [op |-> op, branch |-> 0, threw |-> threw, prev |-> prev,
             before |-> snapshot, views |-> <<>>]

\* project and sessionId given to the n-th startInstrumentSession
ProjectOf(n) == <<"proj", n>>
SessionIdOf(n) == <<"sess", n>>

\* No evaluation was asked for
NoEvaluation == [phase |-> "none"]

\* The instrumentation module after load, with the method decorated by one
\* of decorations
Module(decorations) ==
    /\ \E o \in decorations :
          /\ options = [k \in (DOMAIN o) \ {"names"} |-> o[k]]
          /\ names = o.names
    /\ sessions = <<>>
    /\ store = NoSession
    /\ calls = <<>>
    /\ done = <<>>
    /\ now = 10
    /\ started = 0
    /\ epoch = 0
    /\ contexts = <<>>
    /\ tasks = <<>>
    /\ fetch = NoFetch
    /\ last = NoOp
    /\ plain = <<>>

\* The package after load: nothing evaluated yet
Loaded(decorations) == Module(decorations) /\ evals = NoEvaluation

Init == Loaded(OptionSets)

\* startInstrumentSession(project, sessionId) without endpoint
startInstrumentSession ==
    /\ store = NoSession
    /\ Len(sessions) < MaxSessions
    /\ sessions' = Append(sessions, Session(ProjectOf(Len(sessions) + 1),
                                            SessionIdOf(Len(sessions) + 1)))
    /\ store' = Len(sessions) + 1
    /\ epoch' = epoch + 1
    /\ Did("start", FALSE, "none", <<>>)
    /\ UNCHANGED <<plain, evals, options, names, calls, done, now, started, contexts, tasks, fetch>>

\* setInstrumentSessionReplay(units) with units one of sets; without a
\* session it throws.  The caller installs a replay set when the session
\* holds none.
installReplay(sets) ==
    /\ store # NoSession
    /\ ~sessions[store].hasReplay
    /\ \E units \in sets :
          sessions' = [sessions EXCEPT ![store] =
              [@ EXCEPT !.hasReplay = TRUE,
                        !.replay = indexUnits(units, EmptyMap),
                        !.replayCursor = EmptyMap,
                        !.installed = units]]
    /\ epoch' = epoch + 1
    /\ Did("setReplay", FALSE, last.op, <<>>)
    /\ UNCHANGED <<plain, evals, options, names, store, calls, done, now, started, contexts, tasks, fetch>>

setInstrumentSessionReplay == installReplay(ReplaySets)

\* The wrapper of LogMethod from its entry to original.apply(this, args),
\* called on thisValue with args; the wrapper was made for the method
\* propertyKey under label, the original being impl
invokeAs(label, propertyKey, args, thisValue, impl) ==
    /\ started < MaxCalls
    /\    LET pk == IF store = NoSession THEN NoPeek
                    ELSE peek(sessions[store], label)
              passed == preCallArgs(pk, names, args)
              argMap == captureArgs(options.params, names, passed, 0)
              payload ==
                  [ label |-> label, start |-> now,
                    project |-> IF store = NoSession THEN Absent ELSE sessions[store].project,
                    sessionId |-> IF store = NoSession THEN Absent ELSE sessions[store].sessionId,
                    args |-> IF argMap = EmptyMap THEN NoMap ELSE Some(argMap),
                    thisArg |-> IF options.includeThis THEN toJSONish(thisValue) ELSE Undef,
                    vars |-> NoMap, return |-> Undef, error |-> Absent ]
              call ==
                  [ id |-> started + 1, sess |-> store, sink |-> selectSink(options, store),
                    liveArgs |-> args, logged |-> Undef, this |-> thisValue, given |-> Undef,
                    method |-> propertyKey,
                    cleared |-> store # NoSession /\ sessions[store].wasCleared
                                    /\ sessions[store].installed = <<>>,
                    args |-> passed, peek |-> pk, payload |-> payload,
                    result |-> run(impl, passed),
                    overlapped |-> calls # <<>>, epoch |-> epoch ]
          IN calls' = Append([i \in 1..Len(calls) |-> [calls[i] EXCEPT !.overlapped = TRUE]],
                             call)
    /\ started' = started + 1
    /\ now' = now + 1
    /\ UNCHANGED <<plain, evals, options, names, sessions, store, done, epoch, contexts, tasks, fetch, last>>

\* The wrapper of the decorated method compute
invoke(args, thisValue, impl) == invokeAs(options.label, "compute", args, thisValue, impl)

\* svc.compute(a, b)
Invoke == \E args \in LiveArgs : invoke(args, ThisValue, Combine)

\* A synchronous original is the innermost one running; the continuation of
\* an asynchronous one runs only when no synchronous original is running.
canComplete(i) ==
    IF options.async
    THEN TRUE
    ELSE i = Len(calls)

RemoveAt(seq, i) == SubSeq(seq, 1, i - 1) \o SubSeq(seq, i + 1, Len(seq))

\* getInstrumentSession() as seen by the post-call step of call c
sessionAt(c) == IF options.async THEN c.sess ELSE store

\* sinkOf looked up when the unit is handed over
sinkLookedUpLate(c, cur) == selectSink(options, store)

\* The sink a post-call path hands its unit to: the one bound at call start
sinkOf(c, cur) == c.sink

\* applyReplayIfAvailable when it is not called, or finds no session
skipReplay(cur, unit, cursors) ==
    [ matched |-> FALSE, index |-> 0, replayUnit |-> <<>>, unit |-> unit,
      overrideReturn |-> Undef, replayCursor |-> cursors ]

\* The post-call step; outcome "return" or "throw" of the original, withReplay
\* when the path calls applyReplayIfAvailable.  A sink that throws on the
\* return path is caught by the wrapper's own catch block (sync) or .catch
\* handler (async), which builds and hands over a second unit.
finish(i, outcome, withReplay) ==
    LET c == calls[i]
        cur == sessionAt(c)
        returnMode == options.return
        payload == [ c.payload EXCEPT
                       !.return = IF outcome = "return" /\ returnMode \in {Trace, TraceAndReplay}
                                  THEN toJSONish(c.result) ELSE Undef,
                       !.error = IF outcome = "return" THEN Absent ELSE errorText(Boom) ]
        liveUnit == buildUnit(payload, now)
        cursors == IF cur = NoSession THEN EmptyMap ELSE sessions[cur].replayCursor
        rr == IF withReplay /\ cur # NoSession
              THEN applyReplayIfAvailable(sessions[cur], payload.label, liveUnit)
              ELSE skipReplay(cur, liveUnit, cursors)
        sink == sinkOf(c, cur)
        sinkThrows == sink.kind = "options" /\ options.sink = ThrowingSink
        again == sinkThrows /\ outcome = "return"
        payload2 == [payload EXCEPT !.error = errorText(SinkError)]
        rr2 == IF again /\ ~options.async /\ cur # NoSession
               THEN applyReplayIfAvailable([sessions[cur] EXCEPT !.replayCursor = rr.replayCursor],
                                           payload.label, buildUnit(payload2, now))
               ELSE skipReplay(cur, buildUnit(payload2, now), rr.replayCursor)
        cursorsAfter == IF again THEN rr2.replayCursor ELSE rr.replayCursor
        raised == IF sinkThrows THEN SinkError
                  ELSE IF outcome = "throw" THEN Boom ELSE NoError
        returned == IF raised = NoError
                    THEN IF shouldOverride(options, rr) THEN rr.overrideReturn ELSE c.result
                    ELSE Undef
        collected == sink.kind = "session" /\ ~sinkThrows
        entry ==
            [ id |-> c.id, label |-> payload.label, sess |-> c.sess, cur |-> cur,
              liveArgs |-> c.liveArgs, args |-> c.args, peek |-> c.peek,
              post |-> [matched |-> rr.matched, index |-> rr.index, unit |-> rr.replayUnit],
              outcome |-> outcome, result |-> c.result, returned |-> returned,
              logged |-> c.logged, clearedAtStart |-> c.cleared,
              this |-> c.this, given |-> c.given, method |-> c.method,
              raised |-> raised, sink |-> sink, sinkAtStart |-> c.sink, storeAtEnd |-> store,
              emitted |-> IF again THEN <<rr.unit, rr2.unit>> ELSE <<rr.unit>>,
              at |-> IF collected THEN <<sink.sess, Len(sessions[sink.sess].units) + 1>> ELSE <<>>,
              liveUnit |-> liveUnit, unit |-> rr.unit,
              cursorBefore |-> IF cur = NoSession THEN 0 ELSE cursorOf(sessions[cur], payload.label),
              cursorAfter |-> IF payload.label \in DOMAIN cursorsAfter
                              THEN cursorsAfter[payload.label] ELSE 0,
              list |-> IF cur # NoSession /\ sessions[cur].hasReplay
                       THEN replayList(sessions[cur].replay, payload.label) ELSE <<>>,
              installed |-> IF cur # NoSession THEN sessions[cur].installed ELSE <<>>,
              overlapped |-> c.overlapped, epochStart |-> c.epoch, epochEnd |-> epoch ]
        context ==
            [ id |-> c.id, sess |-> cur, label |-> payload.label, late |-> FALSE,
              vars |-> payload.vars, at |-> entry.at,
              shared |-> /\ payload.vars # NoMap
                         /\ ~(rr.matched /\ rr.replayUnit[1].payload.vars # NoMap) ]
    IN /\ sessions' =
            [s \in 1..Len(sessions) |->
                [ sessions[s] EXCEPT
                    !.replayCursor = IF s = cur THEN cursorsAfter ELSE @,
                    !.replay = IF s = cur /\ rr.matched THEN replayAfter(@, payload.label) ELSE @,
                    !.units = IF collected /\ s = sink.sess THEN Append(@, rr.unit) ELSE @ ]]
       /\ calls' = RemoveAt(calls, i)
       /\ done' = Append(done, entry)
       /\ contexts' = Append(contexts, context)
       /\ now' = now + 1
       /\ UNCHANGED <<plain, evals, options, names, store, started, epoch, tasks, fetch, last>>

\* The original returned a value, or its promise resolved
CompleteReturn ==
    \E i \in 1..Len(calls) : canComplete(i) /\ finish(i, "return", TRUE)

\* The original threw synchronously (the catch block of the wrapper)
CompleteThrow ==
    /\ ~options.async
    /\ \E i \in 1..Len(calls) : canComplete(i) /\ finish(i, "throw", TRUE)

\* The promise of the original rejected (the .catch handler of the wrapper)
CompleteReject ==
    /\ options.async
    /\ \E i \in 1..Len(calls) : canComplete(i) /\ finish(i, "throw", FALSE)

Next ==
    \/ startInstrumentSession
    \/ setInstrumentSessionReplay
    \/ Invoke
    \/ CompleteReturn
    \/ CompleteThrow
    \/ CompleteReject

Spec == Init /\ [][Next]_vars

\* The reference decoration, synchronous and asynchronous
RefOptionSets == { Options(SvcCompute, RefSignature, RefReturn, a, FALSE) : a \in BOOLEAN }

\* the store value after sessionStore.enterWith(undefined), kept as it was
afterEndKept(st) == st

\* the store value after sessionStore.enterWith(undefined)
afterEnd(st) == NoSession

\* endInstrumentSession()
endInstrumentSession ==
    /\ store # NoSession
    /\ store' = afterEnd(store)
    /\ epoch' = epoch + 1
    /\ Did("end", FALSE, "none", <<>>)
    /\ UNCHANGED <<plain, evals, options, names, sessions, calls, done, now, started, contexts, tasks, fetch>>

\* startInstrumentSession(project, sessionId) while a session is active
startInstrumentSessionAgain ==
    /\ store # NoSession
    /\ Len(sessions) < MaxSessions
    /\ sessions' = Append(sessions, Session(ProjectOf(Len(sessions) + 1),
                                            SessionIdOf(Len(sessions) + 1)))
    /\ store' = Len(sessions) + 1
    /\ epoch' = epoch + 1
    /\ Did("start", FALSE, "none", <<>>)
    /\ UNCHANGED <<plain, evals, options, names, calls, done, now, started, contexts, tasks, fetch>>

\* The replay state of every session object
replayState ==
    [s \in 1..Len(sessions) |->
        [ hasReplay |-> sessions[s].hasReplay, replay |-> sessions[s].replay,
          installed |-> sessions[s].installed,
          cursors |-> DOMAIN sessions[s].replayCursor ]]

\* setInstrumentSessionReplay(units) with no session in the store: line 211
\* throws before anything is built
setInstrumentSessionReplayOutside ==
    /\ store = NoSession
    /\ last.op # "setReplay"
    /\ Did("setReplay", TRUE, last.op, replayState)
    /\ UNCHANGED <<plain, evals, options, names, sessions, store, calls, done, now, started, epoch,
                   contexts, tasks, fetch>>

\* Sessions that are ended or replaced while calls are in flight
NextEnd ==
    \/ startInstrumentSession
    \/ startInstrumentSessionAgain
    \/ endInstrumentSession
    \/ Invoke
    \/ CompleteReturn
    \/ CompleteThrow
    \/ CompleteReject

InitEnd == Loaded(RefOptionSets)

SpecEnd == InitEnd /\ [][NextEnd]_vars

\* Replay sets installed inside and outside of sessions
NextOutside ==
    \/ startInstrumentSession
    \/ setInstrumentSessionReplay
    \/ endInstrumentSession
    \/ setInstrumentSessionReplayOutside

SpecOutside == InitEnd /\ [][NextOutside]_vars

----------------------------------------------------------------------------
(* startInstrumentSession(project, sessionId, endpoint, autoReplay = true): *)
(* the session is entered, then the units recorded for it are requested     *)
(* from the record store and awaited.                                       *)

\* Endpoints after normalisation: one that new URL() accepts, one it rejects
GoodEndpoint == "http://localhost:3300/api/data"
BadEndpoint == "localhost 3300/api/data"
Endpoints == {GoodEndpoint, BadEndpoint}

\* new URL(ep) returns
validURL(ep) == ep = GoodEndpoint

\* One item of the record store's answer
Item(tag, ts, a, r) == [tagid |-> tag, timestamp |-> ts, payload |-> [args |-> a, return |-> r]]

\* A response body: whether JSON.parse accepts it, whether it has an object
\* under data, whether walking session -> tagId -> description -> items
\* throws after the items listed, and the number of data events it comes in
Body(json, hasData, malformed, items, chunks) ==
    [ json |-> json, hasData |-> hasData, malformed |-> malformed, items |-> items,
      chunks |-> chunks ]

Bodies ==
    { Body(FALSE, FALSE, FALSE, <<>>, 1),
      Body(TRUE, FALSE, FALSE, <<>>, 1),
      Body(TRUE, TRUE, TRUE, <<Item(SvcCompute, 1, Some(paramsAB(5, 6)), 7)>>, 2),
      Body(TRUE, TRUE, FALSE, <<>>, 1),
      Body(TRUE, TRUE, FALSE, <<Item(SvcCompute, 1, Some(paramsAB(5, 6)), 7),
                                Item(Compute, 2, NoMap, 8)>>, 2) }

\* The unit collected for one item (lines 163-169)
preloaded(item) ==
    [ tagId |-> item.tagid, timestamp |-> item.timestamp,
      payload |-> [ args |-> item.payload.args, vars |-> NoMap,
                    return |-> item.payload.return, preloaded |-> TRUE ] ]

\* collect that keeps the items walked before the walk threw
collectPartial(body) ==
    IF ~body.json \/ ~body.hasData THEN <<>>
    ELSE [i \in 1..Len(body.items) |-> preloaded(body.items[i])]

\* The units handed to setInstrumentSessionReplay for a response body: none
\* when JSON.parse or the walk throws (swallowed at 186) or data is missing
collect(body) ==
    IF ~body.json \/ ~body.hasData \/ body.malformed THEN <<>>
    ELSE [i \in 1..Len(body.items) |-> preloaded(body.items[i])]

Pending == fetch.phase \in {"requested", "receiving", "ended", "failed"}

\* The call up to its await: enterWith, collector, new URL, client.get
startInstrumentSessionWithEndpoint ==
    /\ ~Pending
    /\ Len(sessions) < MaxSessions
    /\ sessions' = Append(sessions, Session(ProjectOf(Len(sessions) + 1),
                                            SessionIdOf(Len(sessions) + 1)))
    /\ store' = Len(sessions) + 1
    /\ epoch' = epoch + 1
    /\ \E ep \in Endpoints :
          IF validURL(ep)
          THEN /\ fetch' = [ phase |-> "requested", sess |-> Len(sessions) + 1,
                             cause |-> "", body |-> <<>>, got |-> 0, returned |-> <<>> ]
               /\ UNCHANGED last
          ELSE /\ fetch' = [ phase |-> "returned", sess |-> Len(sessions) + 1,
                             cause |-> "invalid url", body |-> <<>>, got |-> 0,
                             returned |-> <<>> ]
               /\ Did("start", FALSE, "none", <<>>)
    /\ UNCHANGED <<plain, evals, options, names, calls, done, now, started, contexts, tasks>>

\* The record store answers: the response callback runs
responseArrives ==
    /\ fetch.phase = "requested"
    /\ \E b \in Bodies : fetch' = [fetch EXCEPT !.phase = "receiving", !.body = <<b>>]
    /\ UNCHANGED <<plain, evals, options, names, sessions, store, calls, done, now, started, epoch,
                   contexts, tasks, last>>

\* res 'data'
dataArrives ==
    /\ fetch.phase = "receiving"
    /\ fetch.got < fetch.body[1].chunks
    /\ fetch' = [fetch EXCEPT !.got = @ + 1]
    /\ UNCHANGED <<plain, evals, options, names, sessions, store, calls, done, now, started, epoch,
                   contexts, tasks, last>>

\* res 'end': the awaited promise resolves with the body
responseEnds ==
    /\ fetch.phase = "receiving"
    /\ fetch.got = fetch.body[1].chunks
    /\ fetch' = [fetch EXCEPT !.phase = "ended"]
    /\ UNCHANGED <<plain, evals, options, names, sessions, store, calls, done, now, started, epoch,
                   contexts, tasks, last>>

\* req 'error': the awaited promise rejects
requestFails ==
    /\ fetch.phase = "requested"
    /\ fetch' = [fetch EXCEPT !.phase = "failed", !.cause = "connection error"]
    /\ UNCHANGED <<plain, evals, options, names, sessions, store, calls, done, now, started, epoch,
                   contexts, tasks, last>>

\* The call after its await: parse, install and preload, return sess.units
resumeStart ==
    /\ fetch.phase \in {"ended", "failed"}
    /\ LET sess == fetch.sess
           collected == IF fetch.phase = "ended" THEN collect(fetch.body[1]) ELSE <<>>
           units == sessions[sess].units \o collected
           cause == IF fetch.phase = "failed" THEN fetch.cause
                    ELSE IF ~fetch.body[1].json \/ ~fetch.body[1].hasData \/ fetch.body[1].malformed
                         THEN "unexpected body" ELSE ""
       IN /\ sessions' =
                 IF collected # <<>>
                 THEN [sessions EXCEPT ![sess] =
                         [@ EXCEPT !.hasReplay = TRUE,
                                   !.replay = indexUnits(collected, EmptyMap),
                                   !.replayCursor = EmptyMap,
                                   !.installed = collected,
                                   !.units = units]]
                 ELSE sessions
          /\ fetch' = [fetch EXCEPT !.phase = "returned", !.cause = cause, !.returned = units]
    /\ Did("start", FALSE, "none", <<>>)
    /\ UNCHANGED <<plain, evals, options, names, store, calls, done, now, started, epoch, contexts, tasks>>

NextFetch ==
    \/ startInstrumentSessionWithEndpoint
    \/ responseArrives
    \/ dataArrives
    \/ responseEnds
    \/ requestFails
    \/ resumeStart

SpecFetch == InitEnd /\ [][NextFetch]_vars

\* The continuation of the await runs once the promise has settled; the
\* record store is under no obligation to answer
SpecFetchFair == SpecFetch /\ WF_vars(resumeStart)

----------------------------------------------------------------------------
\* The same wrapper decorated with options.sink set to a function that throws
InitSink == Loaded(SinkOptionSets)

SpecSink == InitSink /\ [][Next]_vars

----------------------------------------------------------------------------
(* Execution branches.  sessionStore is an AsyncLocalStorage: every async  *)
(* resource (the continuation of an await, a spawned task) starts with the *)
(* store value of the resource that created it, and enterWith replaces the *)
(* value of the running resource only.  The value is a reference to the    *)
(* session object, which lives on the heap (sessions).                     *)

\* a new resource that starts with no store value
inheritNothing(parentStore) == NoSession

\* the store value a new async resource starts with
inherit(parentStore) == parentStore

\* sessionStore.enterWith(v) run by branch t
enterWith(t, v) == [tasks EXCEPT ![t].store = v]

\* getInstrumentSession() called in branch t
getInstrumentSession(t) == tasks[t].store

\* What branch t can observe of its session: which object it is, its replay
\* index and its cursors
view(st) ==
    IF st = NoSession THEN [id |-> NoSession]
    ELSE [ id |-> st, hasReplay |-> sessions[st].hasReplay,
           replay |-> sessions[st].replay, replayCursor |-> sessions[st].replayCursor ]

Views == [t \in 1..Len(tasks) |-> view(getInstrumentSession(t))]

\* the operation op of branch t, with what every branch saw before it
Performed(op, t, threw) ==
    last' = [op |-> op, branch |-> t, threw |-> threw, prev |-> "none",
             before |-> <<>>, views |-> Views]

BranchReplaySets == { <<RU1, RU2>> }

InitBranch == Loaded({Options(SvcCompute, RefSignature, RefReturn, FALSE, FALSE)})

\* A new branch: a top-level execution (par = 0), or the continuation of an
\* await in, or a task spawned by, branch par
Spawn ==
    /\ Len(tasks) < MaxTasks
    /\ \E par \in 0..Len(tasks) :
          LET from == IF par = 0 THEN store ELSE getInstrumentSession(par)
              st == inherit(from)
          IN /\ tasks' = Append(tasks, [ store |-> st, parent |-> par,
                                         expect |-> from,
                                         origin |-> {from} \ {NoSession} ])
             /\ Performed("spawn", Len(tasks) + 1, FALSE)
    /\ UNCHANGED <<plain, evals, options, names, sessions, store, calls, done, now, started, epoch,
                   contexts, fetch>>

\* startInstrumentSession(project, sessionId) run by branch t
BranchStart ==
    \E t \in 1..Len(tasks) :
          /\ Len(sessions) < MaxSessions
          /\ sessions' = Append(sessions, Session(ProjectOf(Len(sessions) + 1),
                                                  SessionIdOf(Len(sessions) + 1)))
          /\ tasks' = [ enterWith(t, Len(sessions) + 1) EXCEPT
                          ![t].expect = Len(sessions) + 1,
                          ![t].origin = @ \cup {Len(sessions) + 1} ]
          /\ Performed("start", t, FALSE)
          /\ UNCHANGED <<plain, evals, options, names, store, calls, done, now, started, epoch, contexts, fetch>>

\* endInstrumentSession() run by branch t
BranchEnd ==
    \E t \in 1..Len(tasks) :
          /\ getInstrumentSession(t) # NoSession
          /\ tasks' = [ enterWith(t, NoSession) EXCEPT ![t].expect = NoSession ]
          /\ Performed("end", t, FALSE)
          /\ UNCHANGED <<plain, evals, options, names, sessions, store, calls, done, now, started, epoch,
                         contexts, fetch>>

\* setInstrumentSessionReplay(units) run by branch t inside a session
BranchSetReplay ==
    \E t \in 1..Len(tasks) :
        LET st == getInstrumentSession(t)
        IN /\ st # NoSession
           /\ ~sessions[st].hasReplay
           /\ \E units \in BranchReplaySets :
                 sessions' = [sessions EXCEPT ![st] =
                     [@ EXCEPT !.hasReplay = TRUE,
                               !.replay = indexUnits(units, EmptyMap),
                               !.replayCursor = EmptyMap,
                               !.installed = units]]
           /\ Performed("setReplay", t, FALSE)
           /\ UNCHANGED <<plain, evals, options, names, store, calls, done, now, started, epoch,
                          contexts, tasks, fetch>>

\* cleared that resets the cursors and keeps the index
clearedCursorsOnly(sess) == [sess EXCEPT !.replayCursor = EmptyMap]

\* the session object after delete sess.replay; delete sess.replayCursor
cleared(sess) ==
    [sess EXCEPT !.hasReplay = FALSE, !.replay = EmptyMap, !.replayCursor = EmptyMap]

\* clearInstrumentSessionReplay() run by branch t
BranchClear ==
    \E t \in 1..Len(tasks) :
        LET st == getInstrumentSession(t)
        IN /\ st # NoSession
           /\ sessions[st].hasReplay
           /\ sessions' = [sessions EXCEPT ![st] = [cleared(@) EXCEPT !.installed = <<>>]]
           /\ Performed("clear", t, FALSE)
           /\ UNCHANGED <<plain, evals, options, names, store, calls, done, now, started, epoch,
                          contexts, tasks, fetch>>

\* A synchronous call of the decorated method run by branch t from entry to
\* return: its post-call step consumes a replay record of the session
BranchCall ==
    \E t \in 1..Len(tasks) :
        LET st == getInstrumentSession(t)
        IN /\ started < MaxCalls
           /\ st # NoSession
           /\ \E args \in LiveArgs :
                 LET passed == preCallArgs(peek(sessions[st], options.label), names, args)
                     argMap == captureArgs(options.params, names, passed, 0)
                     payload ==
                         [ label |-> options.label, start |-> now,
                           project |-> sessions[st].project, sessionId |-> sessions[st].sessionId,
                           args |-> IF argMap = EmptyMap THEN NoMap ELSE Some(argMap),
                           thisArg |-> Undef, vars |-> NoMap,
                           return |-> toJSONish(original(passed)), error |-> Absent ]
                     rr == applyReplayIfAvailable(sessions[st], options.label, buildUnit(payload, now))
                 IN sessions' = [sessions EXCEPT ![st] =
                        [@ EXCEPT !.replayCursor = rr.replayCursor,
                                  !.replay = IF rr.matched THEN replayAfter(@, options.label) ELSE @,
                                  !.units = Append(@, rr.unit)]]
           /\ started' = started + 1
           /\ Performed("call", t, FALSE)
           /\ UNCHANGED <<plain, evals, options, names, store, calls, done, now, epoch, contexts, tasks, fetch>>

\* Branches that start and end sessions
NextBranch ==
    \/ Spawn
    \/ BranchStart
    \/ BranchEnd

SpecBranch == InitBranch /\ [][NextBranch]_vars

\* Branches that also install and clear replay sets and make calls
NextShared ==
    \/ NextBranch
    \/ BranchSetReplay
    \/ BranchClear
    \/ BranchCall

SpecShared == InitBranch /\ [][NextShared]_vars

----------------------------------------------------------------------------
(* clearInstrumentSessionReplay and logVar *)

\* clearInstrumentSessionReplay() of the main program, which clears the
\* replay set of a session once, between calls
clearInstrumentSessionReplay ==
    /\ store # NoSession
    /\ sessions[store].hasReplay
    /\ ~sessions[store].wasCleared
    /\ calls = <<>>
    /\ sessions' = [sessions EXCEPT ![store] =
           [cleared(@) EXCEPT !.installed = <<>>, !.wasCleared = TRUE]]
    /\ epoch' = epoch + 1
    /\ Did("clear", FALSE, "none", <<>>)
    /\ UNCHANGED <<plain, evals, options, names, store, calls, done, now, started, contexts, tasks, fetch>>

\* The variable logged inside the original, and a second one logged by a
\* task the original left behind
LiveVar == 9
VarName == "v1"
LateVarName == "v2"

\* finalVal of logVar(value, varName) in a call labelled label whose
\* getInstrumentSession() is st
logVarValue(st, label, varName, value) ==
    IF st = NoSession \/ ~sessions[st].hasReplay THEN value
    ELSE LET list == peekList(sessions[st].replay, label)
         IN IF list = <<>> THEN value
            ELSE LET varsOverride == list[usedIndex(list, cursorOf(sessions[st], label))].payload.vars
                 IN IF /\ varsOverride # NoMap
                       /\ varName \in DOMAIN varsOverride[1]
                       /\ varsOverride[1][varName].value # Undef
                    THEN varsOverride[1][varName].value
                    ELSE value

\* payload.vars after payload.vars[varName] = { value, at }
withVar(dict, varName, value) ==
    LET old == IF dict = NoMap THEN EmptyMap ELSE dict[1]
    IN Some([k \in (DOMAIN old) \cup {varName} |->
                 IF k = varName THEN [value |-> toJSONish(value), at |-> "v@loc"]
                 ELSE old[k]])

\* callContext.getStore() answering with one context kept for the whole
\* module, that of the call started last
getStoreOfLastCall(i) == Len(calls)

\* callContext.getStore() in the execution of the original of calls[i], or
\* of a continuation of it: the context callContext.run(ctx, ...) of that
\* call entered
getStore(i) == i

\* logVar(value, 'v1') run inside the original of a call in flight
logVarOf(value) ==
    \E i \in 1..Len(calls) :
        /\ canComplete(i)
        /\ calls[i].payload.vars = NoMap
        /\ LET c == calls[getStore(i)]
               finalVal == logVarValue(sessionAt(calls[i]), c.payload.label, VarName, value)
               ran == [calls EXCEPT ![i] = [@ EXCEPT !.logged = finalVal, !.given = value]]
           IN calls' = [ran EXCEPT ![getStore(i)] =
                  [@ EXCEPT !.payload = [@ EXCEPT !.vars = withVar(c.payload.vars, VarName, finalVal)]]]
        /\ UNCHANGED <<plain, evals, options, names, sessions, store, done, now, started, epoch,
                       contexts, tasks, fetch, last>>

logVar == logVarOf(LiveVar)

\* logVar(value, 'v2') run in the call context of a finished call, by a
\* task the original started and did not wait for.  payload.vars is the
\* object the emitted unit refers to unless the unit took its vars from a
\* replay record or payload.vars did not exist at emission.
lateLogVar ==
    \E k \in 1..Len(contexts) :
        /\ ~contexts[k].late
        /\ LET x == contexts[k]
               finalVal == logVarValue(x.sess, x.label, LateVarName, LiveVar)
               dict == withVar(x.vars, LateVarName, finalVal)
           IN /\ contexts' = [contexts EXCEPT ![k] = [@ EXCEPT !.vars = dict, !.late = TRUE]]
              /\ sessions' =
                    IF x.shared /\ x.at # <<>>
                    THEN [sessions EXCEPT ![x.at[1]].units[x.at[2]].payload.vars = dict]
                    ELSE sessions
        /\ UNCHANGED <<plain, evals, options, names, store, calls, done, now, started, epoch,
                       tasks, fetch, last>>

\* setInstrumentSessionReplay with the records of one recorded run
setInstrumentSessionReplayRecorded == installReplay(BranchReplaySets)

\* Calls that log a variable, in sessions whose replay set is cleared
NextClear ==
    \/ startInstrumentSession
    \/ setInstrumentSessionReplayRecorded
    \/ clearInstrumentSessionReplay
    \/ Invoke
    \/ logVar
    \/ CompleteReturn
    \/ CompleteThrow
    \/ CompleteReject

SpecClear == InitEnd /\ [][NextClear]_vars

\* Calls that log a variable and leave a task behind that logs another one
NextLate ==
    \/ startInstrumentSession
    \/ setInstrumentSessionReplayRecorded
    \/ Invoke
    \/ logVar
    \/ CompleteReturn
    \/ CompleteThrow
    \/ CompleteReject
    \/ lateLogVar

SpecLate == InitEnd /\ [][NextLate]_vars

----------------------------------------------------------------------------
(* logCall, logInline and instrument: wrappers that log through the logger *)
(* and emit no record.  logCall (and logInline, which is logCall under the *)
(* label deriveCallsiteLabel returns, always its fallback) consults the    *)
(* replay set after the original returned; instrument never does.          *)

MaxPlain == 1

LogCallWrapper == "logCall"
LogInlineWrapper == "logInline"
InstrumentWrapper == "instrument"
PlainWrappers == {LogCallWrapper, LogInlineWrapper, InstrumentWrapper}

\* originalUnit of logCall: { tagId, timestamp, session, project, payload: {} }
emptyUnit(label, st) ==
    [ tagId |-> label, timestamp |-> now,
      session |-> IF st = NoSession THEN Absent ELSE sessions[st].sessionId,
      project |-> IF st = NoSession THEN Absent ELSE sessions[st].project,
      payload |-> [ args |-> NoMap, thisArg |-> Undef, vars |-> NoMap, return |-> Undef,
                    error |-> Absent, end |-> Undef, durationMs |-> Undef,
                    replayed |-> FALSE ] ]

\* applyOverride that logs the value and forgets to return it
applyOverrideDropped(res) == Undef

\* applyOverride(res) of logCall: logs the value when the return mode asks
\* for it, and returns it
applyOverride(res) == res

\* A call of a plain wrapper up to fn.apply(this, callArgs): the arguments
\* are logged (pickArgs / formatArgs, never changed) and handed over
plainCall(w, args) ==
    [ id |-> Len(plain) + 1, wrapper |-> w, async |-> options.async, sess |-> store,
      args |-> args, invoked |-> <<args>>, result |-> original(args),
      phase |-> "pending", outcome |-> "", replay |-> FALSE,
      returned |-> Undef, raised |-> NoError ]

\* The post-call part of a plain wrapper for the call c whose original
\* ended with outcome; cur is the session getInstrumentSession() returns.
\* Gives the finished call and the cursor table of cur.
postCall(c, outcome, cur) ==
    LET consults == c.wrapper # InstrumentWrapper /\ outcome = "return"
        cursors == IF cur = NoSession THEN EmptyMap ELSE sessions[cur].replayCursor
        rr == IF consults /\ cur # NoSession
              THEN applyReplayIfAvailable(sessions[cur], options.label,
                                          emptyUnit(options.label, cur))
              ELSE skipReplay(cur, emptyUnit(options.label, cur), cursors)
        actual == IF shouldOverride(options, rr) THEN rr.overrideReturn ELSE c.result
    IN [ entry |->
           [ c EXCEPT
               !.phase = "done", !.outcome = outcome,
               !.replay = cur # NoSession /\ sessions[cur].hasReplay,
               !.returned = IF outcome = "return"
                            THEN IF c.wrapper = InstrumentWrapper THEN c.result
                                 ELSE applyOverride(actual)
                            ELSE Undef,
               !.raised = IF outcome = "return" THEN NoError ELSE Boom ],
         replayCursor |-> rr.replayCursor, matched |-> rr.matched ]

\* sessions after the post-call part pc of a plain wrapper whose session is cur
withCursors(cur, pc) ==
    [s \in 1..Len(sessions) |->
        [sessions[s] EXCEPT
            !.replayCursor = IF s = cur THEN pc.replayCursor ELSE @,
            !.replay = IF s = cur /\ pc.matched THEN replayAfter(@, options.label) ELSE @]]

\* wrapped(...callArgs) with an asynchronous original: the promise it
\* returned is pending
plainInvoke ==
    /\ options.async
    /\ Len(plain) < MaxPlain
    /\ calls = <<>>
    /\ \E w \in PlainWrappers, args \in LiveArgs :
          plain' = Append(plain, plainCall(w, args))
    /\ UNCHANGED <<evals, options, names, sessions, store, calls, done, now, started,
                   epoch, contexts, tasks, fetch, last>>

\* The promise of the original settled: the .then / .catch of the wrapper
plainSettle ==
    /\ \E q \in 1..Len(plain), outcome \in {"return", "throw"} :
          /\ plain[q].phase = "pending"
          /\ LET pc == postCall(plain[q], outcome, plain[q].sess)
             IN /\ plain' = [plain EXCEPT ![q] = pc.entry]
                /\ sessions' = withCursors(plain[q].sess, pc)
    /\ UNCHANGED <<evals, options, names, store, calls, done, now, started,
                   epoch, contexts, tasks, fetch, last>>

\* wrapped(...callArgs) with a synchronous original, which returns or throws
plainSync ==
    /\ ~options.async
    /\ Len(plain) < MaxPlain
    /\ calls = <<>>
    /\ \E w \in PlainWrappers, args \in LiveArgs, outcome \in {"return", "throw"} :
          LET pc == postCall(plainCall(w, args), outcome, store)
          IN /\ plain' = Append(plain, pc.entry)
             /\ sessions' = withCursors(store, pc)
    /\ UNCHANGED <<evals, options, names, store, calls, done, now, started,
                   epoch, contexts, tasks, fetch, last>>

\* A call of the decorated method made before any call of a plain wrapper
decoratedInvoke == plain = <<>> /\ Invoke

\* Every wrapper, with and without a replay set: calls of the decorated
\* method, then calls of the plain wrappers
NextWrap ==
    \/ startInstrumentSession
    \/ setInstrumentSessionReplayRecorded
    \/ decoratedInvoke
    \/ CompleteReturn
    \/ CompleteThrow
    \/ CompleteReject
    \/ plainInvoke
    \/ plainSettle
    \/ plainSync

SpecWrap == InitEnd /\ [][NextWrap]_vars

----------------------------------------------------------------------------
(* Calls whose arguments, this, logged variable or return value cannot be  *)
(* serialised                                                              *)

\* The reference decoration tracing both parameters, this and the return
SerialOptionSets ==
    { Options(SvcCompute, [names |-> <<"a", "b">>, params |-> paramsAB(Trace, Trace)],
              [return |-> Trace, replayOverrideReturn |-> FALSE], a, TRUE) : a \in BOOLEAN }

\* Calls svc.compute(a, b) with one value that has no JSON text: an
\* argument, this, or what the original returns
OpaqueCall(args, thisValue, impl) == [args |-> args, this |-> thisValue, impl |-> impl]
OpaqueCalls ==
    { OpaqueCall(<<Unserializable, Callback>>, ThisValue, Combine),
      OpaqueCall(<<1, 2>>, Unserializable, Combine),
      OpaqueCall(<<1, 2>>, ThisValue, Opaque),
      OpaqueCall(<<1, 2>>, ThisValue, Factory) }
OpaqueVars == { Unserializable }

InitSerial == Loaded(SerialOptionSets)

\* One such call at a time
invokeOpaque ==
    /\ calls = <<>>
    /\ \E c \in OpaqueCalls : invoke(c.args, c.this, c.impl)

logVarOpaque == \E value \in OpaqueVars : logVarOf(value)

NextSerial ==
    \/ startInstrumentSession
    \/ invokeOpaque
    \/ logVarOpaque
    \/ CompleteReturn
    \/ CompleteThrow
    \/ CompleteReject

SpecSerial == InitSerial /\ [][NextSerial]_vars

----------------------------------------------------------------------------
(* LogAll: every own method of the class is wrapped by LogMethod           *)

NoLabel == <<>>
ClassName == "Service"
OwnMethods == {"greet", "sum"}

\* label of LogAll for the method name: options.label ?? `${constructor.name}.${name}`
LogAllLabel(opts, constructorName, name) ==
    IF opts.label # NoLabel THEN opts.label ELSE <<constructorName, ".", name>>

\* @LogAll({ label: 'Service' }), @LogAll({}) and @LogAll({ label: 'Svc.compute' })
LogAllOptionSets ==
    { Options(l, RefSignature, RefReturn, a, FALSE) :
          l \in {NoLabel, <<ClassName>>, SvcCompute}, a \in BOOLEAN }

InitLogAll == Loaded(LogAllOptionSets)

\* A call of one of the wrapped methods
invokeOwnMethod ==
    \E name \in OwnMethods, args \in LiveArgs :
        invokeAs(LogAllLabel(options, ClassName, name), name, args, ThisValue, Combine)

NextLogAll ==
    \/ startInstrumentSession
    \/ setInstrumentSessionReplayRecorded
    \/ invokeOwnMethod
    \/ CompleteReturn
    \/ CompleteThrow
    \/ CompleteReject

SpecLogAll == InitLogAll /\ [][NextLogAll]_vars

----------------------------------------------------------------------------
(* Evaluation (eval/evaluator.ts, eval/methodologies, eval/query.ts).      *)
(* Strings are sequences of characters.  A JSON value of a record is an    *)
(* integer: a number, undefined, null, or the code of a string or boolean. *)

TxAbSp == 101
TxAb == 102
TxSpB == 103
TxEmpty == 104
TxSp == 105
TxAcommaB == 106
TxTrue == 107
TxC == 108

\* The strings the codes stand for
Texts ==
    [c \in {TxAbSp, TxAb, TxSpB, TxEmpty, TxSp, TxAcommaB, TxC} |->
        CASE c = TxAbSp -> <<"A", "b", " ">>
          [] c = TxAb -> <<"a", "b">>
          [] c = TxSpB -> <<" ", "B">>
          [] c = TxEmpty -> <<>>
          [] c = TxSp -> <<" ">>
          [] c = TxAcommaB -> <<"a", ",", "B">>
          [] OTHER -> <<"c">>]

\* A JavaScript value as the evaluator sees it; an object has its keys in
\* insertion order, a key being the pieces of its name
Num(n) == [kind |-> "number", n |-> n, chars |-> <<>>, keys |-> <<>>, entries |-> <<>>]
Str(chars) == [kind |-> "string", n |-> 0, chars |-> chars, keys |-> <<>>, entries |-> <<>>]
Bool(b) == [kind |-> "boolean", n |-> IF b THEN 1 ELSE 0, chars |-> <<>>, keys |-> <<>>, entries |-> <<>>]
Obj(keys, values) == [kind |-> "object", n |-> 0, chars |-> <<>>, keys |-> keys, entries |-> values]
Undefined == [kind |-> "undefined", n |-> 0, chars |-> <<>>, keys |-> <<>>, entries |-> <<>>]
NullValue == [kind |-> "null", n |-> 0, chars |-> <<>>, keys |-> <<>>, entries |-> <<>>]
Arr(values) == [kind |-> "array", n |-> 0, chars |-> <<>>, keys |-> <<>>, entries |-> values]

\* The value a JSON code of a record stands for
jsValue(code) ==
    IF code \in DOMAIN Texts THEN Str(Texts[code])
    ELSE IF code = TxTrue THEN Bool(TRUE)
    ELSE IF code = Undef THEN Undefined
    ELSE IF code = Null THEN NullValue
    ELSE IF code = SentinelString THEN Str(<<"[", "u", "n", "s", "e", "r", "]">>)
    ELSE Num(code)

\* x ?? y
Nullish(x) == x.kind \in {"undefined", "null"}
\* x ?? y without the default
OrIfNullishDropped(x, y) == x

OrIfNullish(x, y) == IF Nullish(x) THEN y ELSE x

DigitChars == <<"0", "1", "2", "3", "4", "5", "6", "7", "8", "9">>

RECURSIVE Digits(_)
Digits(n) == IF n < 10 THEN <<DigitChars[n + 1]>>
             ELSE Digits(n \div 10) \o <<DigitChars[(n % 10) + 1]>>

\* String(x)
String(x) ==
    CASE x.kind = "string" -> x.chars
      [] x.kind = "number" -> IF x.n < 0 THEN <<"-">> \o Digits(0 - x.n) ELSE Digits(x.n)
      [] x.kind = "boolean" -> IF x.n = 1 THEN <<"t", "r", "u", "e">> ELSE <<"f", "a", "l", "s", "e">>
      [] x.kind = "undefined" -> <<"u", "n", "d", "e", "f", "i", "n", "e", "d">>
      [] x.kind = "null" -> <<"n", "u", "l", "l">>
      [] OTHER -> <<"[", "o", "b", "j", "e", "c", "t", " ", "O", "b", "j", "e", "c", "t", "]">>

\* s.toLowerCase()
lowerChar(c) == CASE c = "A" -> "a" [] c = "B" -> "b" [] c = "E" -> "e" [] c = "O" -> "o" [] OTHER -> c
toLowerCase(s) == [i \in 1..Len(s) |-> lowerChar(s[i])]

\* s.trim()
isSpace(c) == c = " " \/ c = "\n"
RECURSIVE trimStart(_)
trimStart(s) == IF s # <<>> /\ isSpace(Head(s)) THEN trimStart(Tail(s)) ELSE s
RECURSIVE trimEnd(_)
trimEnd(s) == IF s # <<>> /\ isSpace(s[Len(s)]) THEN trimEnd(SubSeq(s, 1, Len(s) - 1)) ELSE s
trim(s) == trimEnd(trimStart(s))

\* t.includes(e)
startsAt(t, e, i) == i + Len(e) - 1 <= Len(t) /\ SubSeq(t, i, i + Len(e) - 1) = e
RECURSIVE includesFrom(_, _, _)
includesFrom(t, e, i) ==
    IF i + Len(e) - 1 > Len(t) THEN FALSE
    ELSE IF startsAt(t, e, i) THEN TRUE
    ELSE includesFrom(t, e, i + 1)
stringIncludes(t, e) == includesFrom(t, e, 1)

\* s.split(separator): the pieces between the separators
RECURSIVE splitOn(_, _, _, _)
splitOn(s, separators, piece, pieces) ==
    IF s = <<>> THEN Append(pieces, piece)
    ELSE IF Head(s) \in separators THEN splitOn(Tail(s), separators, <<>>, Append(pieces, piece))
    ELSE splitOn(Tail(s), separators, Append(piece, Head(s)), pieces)

\* .map((s) => s.trim()).filter(Boolean)
RECURSIVE trimmedNonEmpty(_)
trimmedNonEmpty(pieces) ==
    IF pieces = <<>> THEN <<>>
    ELSE LET p == trim(Head(pieces))
         IN IF p = <<>> THEN trimmedNonEmpty(Tail(pieces))
            ELSE <<p>> \o trimmedNonEmpty(Tail(pieces))

\* obj[k] = v
setKey(obj, k, v) ==
    IF \E i \in 1..Len(obj.keys) : obj.keys[i] = k
    THEN [obj EXCEPT !.entries = [i \in 1..Len(obj.keys) |->
                                      IF obj.keys[i] = k THEN v ELSE obj.entries[i]]]
    ELSE [obj EXCEPT !.keys = Append(obj.keys, k), !.entries = Append(obj.entries, v)]

\* obj[k]
getKey(obj, k) ==
    IF obj.kind = "object" /\ \E i \in 1..Len(obj.keys) : obj.keys[i] = k
    THEN obj.entries[CHOOSE i \in 1..Len(obj.keys) : obj.keys[i] = k]
    ELSE IF obj.kind = "string" /\ k = <<"length">> THEN Num(Len(obj.chars))
    ELSE Undefined

EmptyObject == Obj(<<>>, <<>>)

\* The order in which the wrapper and logVar insert keys into args and vars
KeyOrder == <<"a", "b", "arg0", "arg1", "arg2", VarName, LateVarName>>
orderedKeys(m) == SelectSeq(KeyOrder, LAMBDA k : k \in DOMAIN m)

\* payload.args and payload.vars of a unit, as objects
argsObject(m) ==
    LET ks == orderedKeys(m)
    IN Obj([i \in 1..Len(ks) |-> <<ks[i]>>], [i \in 1..Len(ks) |-> jsValue(m[ks[i]])])
varsObject(m) ==
    LET ks == orderedKeys(m)
    IN Obj([i \in 1..Len(ks) |-> <<ks[i]>>],
           [i \in 1..Len(ks) |-> Obj(<< <<"value">>, <<"at">> >>,
                                     <<jsValue(m[ks[i]].value), Str(<<m[ks[i]].at>>)>>)])

\* The payload object literal of a unit: every key it names is present
PayloadKeys == <<"args", "thisArg", "vars", "return", "error", "end", "durationMs",
                 "replayed", "preloaded">>
payloadEntry(payload, k) ==
    CASE k = "args" -> IF payload.args = NoMap THEN Undefined ELSE argsObject(payload.args[1])
      [] k = "vars" -> IF payload.vars = NoMap THEN Undefined ELSE varsObject(payload.vars[1])
      [] k = "error" -> IF payload.error = Absent THEN Undefined ELSE Str(<<payload.error>>)
      [] k = "replayed" -> Bool(payload.replayed)
      [] k = "preloaded" -> Bool(payload.preloaded)
      [] k = "return" -> jsValue(payload.return)
      [] k = "thisArg" -> jsValue(payload.thisArg)
      [] k = "end" -> jsValue(payload.end)
      [] OTHER -> jsValue(payload.durationMs)
payloadObject(payload) ==
    LET ks == SelectSeq(PayloadKeys, LAMBDA k : k \in DOMAIN payload
                                                /\ (k = "replayed" => payload.replayed))
    IN Obj([i \in 1..Len(ks) |-> <<ks[i]>>], [i \in 1..Len(ks) |-> payloadEntry(payload, ks[i])])

\* unit.session and unit.project
nameValue(name) == IF name = Absent THEN Undefined ELSE Str(<<name>>)

\* A LogUnit as the evaluator and the sinks receive it
unitObject(u) ==
    IF "session" \in DOMAIN u
    THEN Obj(<< <<"tagId">>, <<"timestamp">>, <<"session">>, <<"project">>, <<"payload">> >>,
             <<Str(u.tagId), Num(u.timestamp), nameValue(u.session), nameValue(u.project),
               payloadObject(u.payload)>>)
    ELSE Obj(<< <<"tagId">>, <<"timestamp">>, <<"payload">> >>,
             <<Str(u.tagId), Num(u.timestamp), payloadObject(u.payload)>>)
unitObjects(units) == [i \in 1..Len(units) |-> unitObject(units[i])]

\* path.split('.').filter(Boolean), after ["k"] became .k
normalizePath(path) ==
    LET dotted == [i \in 1..Len(path) |-> IF path[i] = "[\"" THEN "." ELSE path[i]]
    IN SelectSeq(dotted, LAMBDA c : c # "\"]")
RECURSIVE splitDots(_, _, _)
splitDots(s, piece, pieces) ==
    IF s = <<>> THEN Append(pieces, piece)
    ELSE IF Head(s) = "." THEN splitDots(Tail(s), <<>>, Append(pieces, piece))
    ELSE splitDots(Tail(s), Append(piece, Head(s)), pieces)
pathParts(path) == SelectSeq(splitDots(normalizePath(path), <<>>, <<>>), LAMBDA p : p # <<>>)

\* for (const p of parts) { if (cur == null) return undefined; cur = cur[p] }
RECURSIVE walk(_, _)
walk(cur, parts) ==
    IF parts = <<>> THEN cur
    ELSE IF Nullish(cur) THEN Undefined
    ELSE walk(getKey(cur, Head(parts)), Tail(parts))

getByPath(obj, path) == IF path = <<>> THEN Undefined ELSE walk(obj, pathParts(path))

\* projectInputs(obj, mapping): a query is a sequence of [key, expr]
projectInputs(obj, mapping) ==
    [i \in 1..Len(mapping) |-> [key |-> mapping[i].key, value |-> getByPath(obj, mapping[i].expr)]]

\* ctx[u.tagId] = { ...u.payload } for each unit in turn
RECURSIVE tagContextFrom(_, _)
tagContextFrom(units, ctx) ==
    IF units = <<>> THEN ctx
    ELSE tagContextFrom(Tail(units),
                        setKey(ctx, getKey(Head(units), <<"tagId">>).chars,
                               getKey(Head(units), <<"payload">>)))
buildTagContext(units) == tagContextFrom(units, EmptyObject)

\* `${fallbackUnit.tagId}.${expr.substring('payload.'.length)}`
remapLegacy(expr, units) ==
    IF Len(expr) >= 2 /\ expr[1] = "payload" /\ expr[2] = "." /\ units # <<>>
    THEN getKey(units[1], <<"tagId">>).chars \o <<".">> \o SubSeq(expr, 3, Len(expr))
    ELSE expr

\* inputs.k of the projected inputs
input(inputs, k) ==
    IF \E i \in 1..Len(inputs) : inputs[i].key = k
    THEN inputs[CHOOSE i \in 1..Len(inputs) : inputs[i].key = k].value
    ELSE Undefined

\* Scores are fractions <<numerator, denominator>>
One == <<1, 1>>
Half == <<1, 2>>
Zero == <<0, 1>>
NoScore == <<>>
atLeast(x, y) == x[1] * y[2] >= y[1] * x[2]

\* metric.params?.threshold ?? 0.5
NoThreshold == <<>>
threshold(metric) == IF metric.params.threshold = NoThreshold THEN Half ELSE metric.params.threshold

\* A result that carries no error
NoMessage == <<>>

\* StringMatch.evaluate leaving out the trim of the two strings
StringMatchUntrimmed(metric, inputs) ==
    LET target == String(OrIfNullish(input(inputs, "target"),
                                     OrIfNullish(input(inputs, "answer"), Str(<<>>))))
        expected == String(OrIfNullish(input(inputs, "expected"),
                                       OrIfNullish(input(inputs, "reference"), Str(<<>>))))
        normalized(s) == IF metric.params.caseSensitive THEN s ELSE toLowerCase(s)
        success == stringIncludes(normalized(target), normalized(expected))
    IN [ metric |-> metric.name, success |-> success,
         score |-> IF success THEN One ELSE Zero, error |-> NoMessage,
         details |-> <<target, expected>> ]

StringMatch(metric, inputs) ==
    LET target == String(OrIfNullish(input(inputs, "target"),
                                     OrIfNullish(input(inputs, "answer"), Str(<<>>))))
        expected == String(OrIfNullish(input(inputs, "expected"),
                                       OrIfNullish(input(inputs, "reference"), Str(<<>>))))
        normalized(s) == trim(IF metric.params.caseSensitive THEN s ELSE toLowerCase(s))
        t == normalized(target)
        e == normalized(expected)
        success == stringIncludes(t, e)
    IN [ metric |-> metric.name, success |-> success,
         score |-> IF success THEN One ELSE Zero, error |-> NoMessage,
         details |-> <<target, expected>> ]

\* kws.filter((k) => a.includes(k.toLowerCase())).length
RECURSIVE keywordHits(_, _)
keywordHits(kws, a) ==
    IF kws = <<>> THEN 0
    ELSE (IF stringIncludes(a, toLowerCase(Head(kws))) THEN 1 ELSE 0) + keywordHits(Tail(kws), a)

heuristicScore(answer, rubric) ==
    LET kws == trimmedNonEmpty(splitOn(rubric, {",", ";", "\n"}, <<>>, <<>>))
        hits == keywordHits(kws, toLowerCase(answer))
    IN IF kws = <<>> THEN (IF answer # <<>> THEN One ELSE Zero)
       ELSE IF hits = Len(kws) THEN One
       ELSE IF hits > 0 THEN Half
       ELSE Zero

\* QAG.evaluate; llmResp is what llm.generate(prompt) resolved to
QAG(metric, inputs, llmResp) ==
    LET question == String(OrIfNullish(input(inputs, "question"),
                                       OrIfNullish(input(inputs, "q"), Str(<<>>))))
        answer == String(OrIfNullish(input(inputs, "answer"),
                                     OrIfNullish(input(inputs, "a"), Str(<<>>))))
        reference == String(OrIfNullish(input(inputs, "reference"),
                                        OrIfNullish(input(inputs, "expected"), Str(<<>>))))
        score == heuristicScore(answer, reference)
    IN [ metric |-> metric.name, success |-> atLeast(score, threshold(metric)),
         score |-> score, error |-> NoMessage,
         details |-> <<question, answer, reference>> ]

\* .map((x) => String(x)).filter(Boolean)
strings(values) == SelectSeq([i \in 1..Len(values) |-> String(values[i])], LAMBDA s : s # <<>>)

normalizeSteps(v) ==
    CASE v.kind = "array" -> strings(v.entries)
      [] v.kind = "string" -> trimmedNonEmpty(splitOn(v.chars, {"\n", "->", ","}, <<>>, <<>>))
      [] v.kind = "object" -> strings(v.entries)
      [] OTHER -> <<>>

\* reference.filter((r) => a.includes(r.toLowerCase())).length
RECURSIVE stepHits(_, _)
stepHits(reference, a) ==
    IF reference = <<>> THEN 0
    ELSE (IF \E i \in 1..Len(a) : a[i] = toLowerCase(Head(reference)) THEN 1 ELSE 0)
         + stepHits(Tail(reference), a)

dagCoverage(reference, actual) ==
    IF reference = <<>> THEN (IF actual # <<>> THEN One ELSE Zero)
    ELSE <<stepHits(reference, [i \in 1..Len(actual) |-> toLowerCase(actual[i])]), Len(reference)>>

\* DAG.evaluate with the score read from the answer of the llm
DAGGradedByLLM(metric, inputs, raw) ==
    LET expectedSteps == normalizeSteps(OrIfNullish(input(inputs, "reference"),
                                                    OrIfNullish(input(inputs, "expected"), Arr(<<>>))))
        actualSteps == normalizeSteps(OrIfNullish(input(inputs, "steps"),
                                          OrIfNullish(input(inputs, "plan"),
                                              OrIfNullish(input(inputs, "answer"), Arr(<<>>)))))
        score == IF raw = "0.9" THEN One ELSE Zero
    IN [ metric |-> metric.name, success |-> atLeast(score, threshold(metric)),
         score |-> score, error |-> NoMessage,
         details |-> <<expectedSteps, actualSteps>> ]

\* DAG.evaluate; raw is what llm.generate(prompt) resolved to
DAG(metric, inputs, raw) ==
    LET expectedSteps == normalizeSteps(OrIfNullish(input(inputs, "reference"),
                                                    OrIfNullish(input(inputs, "expected"), Arr(<<>>))))
        actualSteps == normalizeSteps(OrIfNullish(input(inputs, "steps"),
                                          OrIfNullish(input(inputs, "plan"),
                                              OrIfNullish(input(inputs, "answer"), Arr(<<>>)))))
        score == dagCoverage(expectedSteps, actualSteps)
    IN [ metric |-> metric.name, success |-> atLeast(score, threshold(metric)),
         score |-> score, error |-> NoMessage,
         details |-> <<expectedSteps, actualSteps>> ]

\* REGISTRY[metric.methodology]: an own entry, a member every object
\* literal inherits, or undefined
REGISTRY == [DAG |-> "DAG", QAG |-> "QAG", string_match |-> "string_match"]
Inherited == {"constructor", "toString"}
NotRegistered == "undefined"
registered(methodology) ==
    IF methodology \in DOMAIN REGISTRY THEN REGISTRY[methodology]
    ELSE IF methodology \in Inherited THEN "inherited"
    ELSE NotRegistered

\* The result for a methodology that is not registered, without its error
unknownWithoutError(metric) ==
    [ metric |-> metric.name, success |-> FALSE, score |-> NoScore,
      error |-> NoMessage, details |-> <<>> ]

\* { metric, success: false, error: `Unknown methodology: ${metric.methodology}` }
unknown(metric) ==
    [ metric |-> metric.name, success |-> FALSE, score |-> NoScore,
      error |-> <<"Unknown methodology: ", metric.methodology>>, details |-> <<>> ]

\* try { return await m.evaluate({ metric, inputs, llm }) } catch (err) { ... }
evaluateWith(m, metric, inputs, llmResp) ==
    CASE m = "DAG" -> DAG(metric, inputs, llmResp)
      [] m = "QAG" -> QAG(metric, inputs, llmResp)
      [] m = "string_match" -> StringMatch(metric, inputs)
      [] OTHER -> [ metric |-> metric.name, success |-> FALSE, score |-> NoScore,
                    error |-> <<"m.evaluate is not a function">>, details |-> <<>> ]

\* evaluateMetric(metric, allUnits, llm) of the tag-context evaluator
evaluateMetric(metric, allUnits, llmResp) ==
    LET m == registered(metric.methodology)
        tagCtx == buildTagContext(allUnits)
        remapped == [i \in 1..Len(metric.query) |->
                        [key |-> metric.query[i].key,
                         expr |-> remapLegacy(metric.query[i].expr, allUnits)]]
        inputs == projectInputs(tagCtx, remapped)
    IN IF m = NotRegistered THEN unknown(metric)
       ELSE evaluateWith(m, metric, inputs, llmResp)

\* evaluateMetric(metric, unit, llm) of the per-unit evaluator
evaluateMetricOfUnit(metric, unit, llmResp) ==
    LET m == registered(metric.methodology)
        inputs == projectInputs(unit, metric.query)
    IN IF m = NotRegistered THEN unknown(metric)
       ELSE evaluateWith(m, metric, inputs, llmResp)

\* Inputs of an evaluation: metric configs and record sets
MaxMetrics == 2
\* "Twice": the evaluations of one metric set against one record set
Twice == 2

NoParams == [caseSensitive |-> FALSE, threshold |-> NoThreshold]
Metric(name, methodology, query, params) ==
    [name |-> name, methodology |-> methodology, query |-> query, params |-> params]
Q(key, expr) == [key |-> key, expr |-> expr]

returnOf(tag) == tag \o <<".", "return">>
argOf(tag, name) == tag \o <<".", "args", ".", name>>

MetricConfigs ==
    { Metric("match", "string_match",
             <<Q("target", returnOf(Compute)), Q("expected", argOf(Compute, "a"))>>, NoParams),
      Metric("hasSummary", "string_match", <<Q("target", returnOf(SvcCompute))>>, NoParams),
      Metric("plan", "DAG",
             <<Q("steps", <<"payload", ".", "return">>), Q("reference", argOf(Compute, "b"))>>,
             NoParams),
      Metric("exact", "exact_match", <<Q("target", returnOf(Compute))>>, NoParams),
      Metric("ctor", "constructor", <<>>, NoParams) }

EvalRecord(tag, r, a) == ReplayUnit(tag, 1, Some([a |-> a, b |-> TxAcommaB]), NoMap, r)
ComputeFirst == EvalRecord(Compute, TxAbSp, TxAb)
ComputeSecond == EvalRecord(Compute, TxC, TxSpB)
SvcComputeOnly == EvalRecord(SvcCompute, TxAbSp, TxAb)
EvalRecords == {ComputeFirst, ComputeSecond, SvcComputeOnly}
RecordSets ==
    { <<>>, <<ComputeFirst>>, <<ComputeFirst, ComputeSecond>>, <<ComputeSecond, ComputeFirst>>,
      <<SvcComputeOnly>>, <<ComputeFirst, SvcComputeOnly>>,
      <<SvcComputeOnly, ComputeSecond, ComputeFirst>> }

ListsOf(S, n) == UNION { [1..k -> S] : k \in 0..n }

\* What llm.generate may resolve to
LLMResponses == {"len:10", "0.9"}

\* evaluateAll(metrics, units) of the tag-context evaluator and
\* evaluateAll(metrics, unit) of the per-unit evaluator
TagContextApi == "units"
PerUnitApi == "unit"

Given(api, metrics, units) ==
    [ phase |-> "given", api |-> api, metrics |-> metrics, units |-> unitObjects(units),
      given |-> [metrics |-> metrics, units |-> unitObjects(units)],
      out |-> <<>>, runs |-> <<>> ]

Evaluations ==
    { Given(TagContextApi, ms, us) : ms \in ListsOf(MetricConfigs, MaxMetrics),
                                     us \in RecordSets }
    \cup { Given(PerUnitApi, ms, <<u>>) : ms \in ListsOf(MetricConfigs, MaxMetrics),
                                          u \in EvalRecords }

InitEval == Module(RefOptionSets) /\ evals \in Evaluations

\* out.push(r) the other way round
pushFront(out, r) == <<r>> \o out

\* out.push(r)
push(out, r) == Append(out, r)

\* await evaluateMetric(metric, b, llm) of the evaluator called
evaluateOne(e, metric, llmResp) ==
    IF e.api = TagContextApi THEN evaluateMetric(metric, e.units, llmResp)
    ELSE evaluateMetricOfUnit(metric, e.units[1], llmResp)

\* evaluateAll(a, b) is called: const out = []
evaluateAll ==
    /\ evals.phase \in {"given", "done"}
    /\ Len(evals.runs) < Twice
    /\ evals' = [evals EXCEPT !.phase = "running", !.out = <<>>]
    /\ UNCHANGED <<plain, options, names, sessions, store, calls, done, started, now, epoch, contexts, tasks, fetch, last>>

\* for (const metric of metrics) out.push(await evaluateMetric(metric, b, llm))
evaluateAllPush ==
    /\ evals.phase = "running"
    /\ Len(evals.out) < Len(evals.metrics)
    /\ \E llmResp \in LLMResponses :
          evals' = [evals EXCEPT !.out = push(evals.out,
                        evaluateOne(evals, evals.metrics[Len(evals.out) + 1], llmResp))]
    /\ UNCHANGED <<plain, options, names, sessions, store, calls, done, started, now, epoch, contexts, tasks, fetch, last>>

\* return out
evaluateAllReturn ==
    /\ evals.phase = "running"
    /\ Len(evals.out) = Len(evals.metrics)
    /\ evals' = [evals EXCEPT !.phase = "done", !.runs = Append(evals.runs, evals.out)]
    /\ UNCHANGED <<plain, options, names, sessions, store, calls, done, started, now, epoch, contexts, tasks, fetch, last>>

NextEval == evaluateAll \/ evaluateAllPush \/ evaluateAllReturn
SpecEval == InitEval /\ [][NextEval]_vars

\* A methodology applied to inputs of its own: m.evaluate({ metric, inputs, llm })
InputValues == { Str(Texts[c]) : c \in DOMAIN Texts } \cup { Undefined, NullValue, Num(7) }
Missing == <<>>
InputChoices == { <<v>> : v \in InputValues } \cup { Missing }

\* The inputs object with the keys that were given a value
inputsOf(ks, choice) ==
    LET given == SelectSeq(ks, LAMBDA k : choice[k] # Missing)
    IN [i \in 1..Len(given) |-> [key |-> given[i], value |-> choice[given[i]][1]]]

Thresholds == { NoThreshold, One }
MethodologyInputs ==
    { [ phase |-> "inputs",
        metric |-> Metric("m", "string_match", <<>>, [caseSensitive |-> cs, threshold |-> NoThreshold]),
        inputs |-> inputsOf(<<"target", "expected">>, [target |-> t, expected |-> e]) ] :
          cs \in BOOLEAN, t \in InputChoices, e \in InputChoices }
    \cup
    { [ phase |-> "inputs",
        metric |-> Metric("m", "string_match", <<>>, NoParams),
        inputs |-> inputsOf(<<"target", "answer", "expected", "reference">>,
                            [target |-> t, answer |-> <<Str(Texts[TxAbSp])>>,
                             expected |-> e, reference |-> <<Str(Texts[TxSpB])>>]) ] :
          t \in {Missing, <<NullValue>>, <<Str(Texts[TxC])>>},
          e \in {Missing, <<Undefined>>, <<Str(Texts[TxC])>>} }
    \cup
    { [ phase |-> "inputs",
        metric |-> Metric("m", m, <<>>, [caseSensitive |-> FALSE, threshold |-> th]),
        inputs |-> inputsOf(<<"answer", "reference">>, [answer |-> a, reference |-> r]) ] :
          m \in {"QAG", "DAG"}, th \in Thresholds, a \in InputChoices, r \in InputChoices }
    \cup
    { [ phase |-> "inputs",
        metric |-> Metric("m", "DAG", <<>>, NoParams),
        inputs |-> inputsOf(<<"steps", "expected">>, [steps |-> s, expected |-> x]) ] :
          s \in {Missing, <<Arr(<<Str(<<"a">>), Str(<<>>), Num(7)>>)>>,
                 <<argsObject([a |-> TxAb, b |-> TxEmpty])>>},
          x \in {Missing, <<Str(Texts[TxAcommaB])>>, <<Arr(<<Str(<<"A">>)>>)>>} }

InitMethodology == Module(RefOptionSets) /\ evals \in MethodologyInputs

\* const result = await m.evaluate({ metric, inputs, llm })
methodologyEvaluate ==
    /\ evals.phase = "inputs"
    /\ \E llmResp \in LLMResponses :
          evals' = [ phase |-> "result", metric |-> evals.metric, inputs |-> evals.inputs,
                     result |-> evaluateWith(REGISTRY[evals.metric.methodology], evals.metric,
                                             evals.inputs, llmResp) ]
    /\ UNCHANGED <<plain, options, names, sessions, store, calls, done, started, now, epoch, contexts, tasks, fetch, last>>

NextMethodology == methodologyEvaluate
SpecMethodology == InitMethodology /\ [][NextMethodology]_vars

----------------------------------------------------------------------------
(* Round trip of a record: endpointSink, POST /data, GET /data, reload.    *)

\* JSON.parse(JSON.stringify(v)): keys whose value is undefined are left out
RECURSIVE stringified(_)
stringified(v) ==
    IF v.kind # "object" THEN v
    ELSE LET is == SelectSeq([i \in 1..Len(v.keys) |-> i],
                             LAMBDA i : v.entries[i].kind # "undefined")
         IN Obj([j \in 1..Len(is) |-> v.keys[is[j]]],
                [j \in 1..Len(is) |-> stringified(v.entries[is[j]])])

\* x || d
orIfFalsy(x, d) ==
    IF Nullish(x) \/ (x.kind = "string" /\ x.chars = <<>>) \/ (x.kind = "number" /\ x.n = 0)
    THEN d ELSE x

Default == Str(<<"default">>)

\* The body endpointSink posts for a unit
endpointSinkBody(unit) ==
    stringified(Obj(<< <<"project">>, <<"session">>, <<"tagid">>, <<"description">>,
                       <<"timestamp">>, <<"payload">> >>,
                    << orIfFalsy(getKey(unit, <<"project">>), Default),
                       orIfFalsy(getKey(unit, <<"session">>), Default),
                       getKey(unit, <<"tagId">>), getKey(unit, <<"tagId">>),
                       getKey(unit, <<"timestamp">>), getKey(unit, <<"payload">>) >>))

\* String(s || 'default').replace(/[^a-zA-Z0-9._-]/g, '_')
sanitize(s) ==
    LET chars == String(orIfFalsy(s, Default))
    IN [i \in 1..Len(chars) |-> IF chars[i] \in {"/", " ", ":"} THEN "_" ELSE chars[i]]

isValidItem(body) ==
    /\ \E i \in 1..Len(body.keys) : body.keys[i] = <<"project">>
    /\ \E i \in 1..Len(body.keys) : body.keys[i] = <<"timestamp">>
    /\ getKey(body, <<"project">>).kind = "string"
    /\ getKey(body, <<"project">>).chars # <<>>
    /\ getKey(body, <<"timestamp">>).kind \in {"number", "string"}

\* The item POST /data makes of a body
postedItem(body) ==
    Obj(<< <<"project">>, <<"session">>, <<"tagid">>, <<"description">>,
           <<"timestamp">>, <<"payload">> >>,
        << getKey(body, <<"project">>),
           OrIfNullish(getKey(body, <<"session">>), Default),
           OrIfNullish(getKey(body, <<"tagid">>), Default),
           OrIfNullish(getKey(body, <<"description">>), Default),
           getKey(body, <<"timestamp">>),
           OrIfNullish(getKey(body, <<"payload">>), NullValue) >>)

\* The directory of an item: <project>/<session>/<tagid>/<description>
dirOf(item) ==
    << sanitize(getKey(item, <<"project">>)), sanitize(getKey(item, <<"session">>)),
       sanitize(getKey(item, <<"tagid">>)), sanitize(getKey(item, <<"description">>)) >>

Annotations == Str(<<"annotations">>)

\* The item that replaces the file of the annotations
overrideItem(item) ==
    LET given == getKey(getKey(item, <<"payload">>), <<"annotations">>)
        incoming == IF given.kind = "object" THEN given ELSE EmptyObject
        is == SelectSeq([i \in 1..Len(incoming.keys) |-> i],
                        LAMBDA i : incoming.entries[i].kind = "string")
        normalized == Obj([j \in 1..Len(is) |-> incoming.keys[is[j]]],
                          [j \in 1..Len(is) |-> incoming.entries[is[j]]])
    IN setKey(item, <<"payload">>, Obj(<< <<"annotations">> >>, <<normalized>>))

\* persistData(item) on the files of the data directory
persistData(files, item) ==
    LET dir == dirOf(item)
        isAnnotations == /\ getKey(item, <<"tagid">>) = Annotations
                         /\ getKey(item, <<"description">>) = Annotations
        old == IF \E i \in 1..Len(files) : files[i].dir = dir
               THEN files[CHOOSE i \in 1..Len(files) : files[i].dir = dir].items ELSE <<>>
        items == IF isAnnotations THEN <<stringified(overrideItem(item))>>
                 ELSE Append(old, stringified(item))
    IN IF \E i \in 1..Len(files) : files[i].dir = dir
       THEN [i \in 1..Len(files) |-> IF files[i].dir = dir THEN [dir |-> dir, items |-> items]
                                     ELSE files[i]]
       ELSE Append(files, [dir |-> dir, items |-> items])

\* looksLikeSession(topName): the first file under it holds an item of that session
looksLikeSession(files, project, topName) ==
    LET under == SelectSeq(files, LAMBDA f : f.dir[1] = project /\ f.dir[2] = topName
                                              /\ f.items # <<>>)
    IN under # <<>> /\ sanitize(getKey(under[1].items[1], <<"session">>)) = topName

\* readProjectData(project, { session }): the files of the sessions kept
readProjectData(files, project, session) ==
    SelectSeq(files, LAMBDA f : /\ f.dir[1] = sanitize(project)
                                /\ f.items # <<>>
                                /\ looksLikeSession(files, sanitize(project), f.dir[2])
                                /\ sanitize(session) = f.dir[2])

\* The unit the session start makes of a stored item
reloaded(item, tagId) ==
    Obj(<< <<"tagId">>, <<"timestamp">>, <<"session">>, <<"project">>, <<"payload">> >>,
        << orIfFalsy(getKey(item, <<"tagid">>), Str(tagId)),
           IF getKey(item, <<"timestamp">>).kind = "number" THEN getKey(item, <<"timestamp">>)
           ELSE Num(now),
           getKey(item, <<"session">>), getKey(item, <<"project">>),
           setKey(orIfFalsy(getKey(item, <<"payload">>), EmptyObject),
                  <<"preloaded">>, Bool(TRUE)) >>)

\* collected: every item of every description of every tag of the answer
RECURSIVE collected(_)
collected(data) ==
    IF data = <<>> THEN <<>>
    ELSE LET f == Head(data)
             objects == SelectSeq(f.items, LAMBDA item : item.kind = "object")
         IN [i \in 1..Len(objects) |-> reloaded(objects[i], f.dir[3])] \o collected(Tail(data))

\* The records, metrics and stored files a round trip starts from
RoundProject == "P"
RoundSession == "S"
RoundRecord(tag, r) ==
    buildUnit([ label |-> tag, start |-> 1, project |-> RoundProject, sessionId |-> RoundSession,
                args |-> Some([a |-> TxAb, b |-> TxAcommaB]), thisArg |-> Undef,
                vars |-> NoMap, return |-> r, error |-> Absent ], 2)
RoundTags == { Compute, SvcCompute, <<"annotations">> }
RoundMetrics(tag) ==
    { Metric("match", "string_match",
             <<Q("target", returnOf(tag)), Q("expected", argOf(tag, "a"))>>, NoParams),
      Metric("fresh", "string_match",
             <<Q("target", returnOf(tag)), Q("expected", tag \o <<".", "preloaded">>)>>, NoParams),
      Metric("plan", "DAG", <<Q("steps", tag), Q("reference", argOf(tag, "b"))>>, NoParams),
      Metric("graded", "QAG",
             <<Q("answer", <<"payload", ".", "return">>),
               Q("reference", <<"payload", ".", "args", ".", "b">>)>>, NoParams) }

\* A file left by another session of the project
OtherSession(tag) ==
    persistData(<<>>, postedItem(endpointSinkBody(
        setKey(unitObject(RoundRecord(tag, TxC)), <<"session">>, Str(<<"S0">>)))))

NoRequest == <<>>
RoundTrips ==
    { [ phase |-> "emitted", unit |-> unitObject(RoundRecord(tag, r)), metric |-> m,
        files |-> fs, request |-> NoRequest, answer |-> <<>>, units |-> <<>>,
        direct |-> <<>>, afterwards |-> <<>> ] :
          tag \in RoundTags, r \in {TxAbSp, TxC}, m \in UNION { RoundMetrics(t) : t \in RoundTags },
          fs \in { <<>> } \cup { OtherSession(t) : t \in RoundTags } }

InitRound == Module(RefOptionSets) /\ evals \in RoundTrips

\* endpointSink(endpoint)(unit): req.write(body)
endpointSinkPost ==
    /\ evals.phase = "emitted"
    /\ evals' = [evals EXCEPT !.phase = "posted", !.request = endpointSinkBody(evals.unit)]
    /\ UNCHANGED <<plain, options, names, sessions, store, calls, done, started, now, epoch, contexts, tasks, fetch, last>>

\* router.post('/data'): validate, build the item, persistData(item)
routerPostData ==
    /\ evals.phase = "posted"
    /\ evals' = [evals EXCEPT
                    !.phase = "stored", !.request = NoRequest,
                    !.files = IF isValidItem(evals.request)
                              THEN persistData(evals.files, postedItem(evals.request))
                              ELSE evals.files]
    /\ UNCHANGED <<plain, options, names, sessions, store, calls, done, started, now, epoch, contexts, tasks, fetch, last>>

\* router.get('/data') for the project and session of the starting session
routerGetData ==
    /\ evals.phase = "stored"
    /\ evals' = [evals EXCEPT
                    !.phase = "answered",
                    !.answer = readProjectData(evals.files, Str(<<RoundProject>>),
                                               Str(<<RoundSession>>))]
    /\ UNCHANGED <<plain, options, names, sessions, store, calls, done, started, now, epoch, contexts, tasks, fetch, last>>

\* startInstrumentSession: the answer is parsed and its items collected
reloadStored ==
    /\ evals.phase = "answered"
    /\ evals' = [evals EXCEPT !.phase = "reloaded", !.units = collected(evals.answer)]
    /\ UNCHANGED <<plain, options, names, sessions, store, calls, done, started, now, epoch, contexts, tasks, fetch, last>>

\* evaluateMetric(metric, [unit]) and evaluateMetric(metric, collected)
evaluateRoundTrip ==
    /\ evals.phase = "reloaded"
    /\ \E llmResp \in LLMResponses :
          evals' = [evals EXCEPT
                       !.phase = "evaluated",
                       !.direct = evaluateMetric(evals.metric, <<evals.unit>>, llmResp),
                       !.afterwards = evaluateMetric(evals.metric, evals.units, llmResp)]
    /\ UNCHANGED <<plain, options, names, sessions, store, calls, done, started, now, epoch, contexts, tasks, fetch, last>>

NextRound ==
    endpointSinkPost \/ routerPostData \/ routerGetData \/ reloadStored \/ evaluateRoundTrip
SpecRound == InitRound /\ [][NextRound]_vars

----------------------------------------------------------------------------
(* Versioned configs of one project (datalake routes/config.ts, gen.ts)    *)
(* and the loading of a published config by the evaluator.                 *)

MaxRequests == 4

\* MetricConfig arrays and the config values a client may publish
MetricArrayOne == Arr(<<Str(<<"m1">>)>>)
MetricArrayTwo == Arr(<<Str(<<"m1">>), Str(<<"m2">>)>>)
MetricArrays == { MetricArrayOne, MetricArrayTwo }
Wrapped(metrics) == Obj(<< <<"metrics">> >>, <<metrics>>)
ConfigValues == MetricArrays \cup { Wrapped(a) : a \in MetricArrays }

NoFile == <<>>
NoLoad == [status |-> "none"]

\* The config directory: versions[n] is the content of v<n>.json
ConfigStore ==
    [ phase |-> "datalake", versions |-> [n \in {} |-> NoFile], latestJson |-> NoFile,
      assigned |-> <<>>, before |-> [n \in {} |-> NoFile],
      request |-> [kind |-> "none"], loaded |-> NoLoad, requests |-> 0 ]

InitConfig == Module(RefOptionSets) /\ evals = ConfigStore

\* readLatestVersion taking the number of version files for the latest
readLatestVersionByCount(versions) == Cardinality(DOMAIN versions)

\* readLatestVersion(project): the greatest N of the files vN.json, 0 for undefined
readLatestVersion(versions) ==
    IF DOMAIN versions = {} THEN 0
    ELSE CHOOSE n \in DOMAIN versions : \A k \in DOMAIN versions : k <= n

\* fs.writeFileSync(versionFile(project, next), ...) writing over the latest file
writeVersionOverLatest(versions, next, content) ==
    [n \in DOMAIN versions \cup {next} |->
        IF n = next \/ n = next - 1 THEN content ELSE versions[n]]

\* fs.writeFileSync(versionFile(project, next), content)
writeVersion(versions, next, content) ==
    [n \in DOMAIN versions \cup {next} |-> IF n = next THEN content ELSE versions[n]]

\* JSON.stringify({ version: next, config }) and the file POST /gen writes
configFile(next, config) ==
    stringified(Obj(<< <<"version">>, <<"config">> >>, <<Num(next), config>>))
genFile(next, generatedAt, metrics) ==
    stringified(Obj(<< <<"version">>, <<"generatedAt">>, <<"metrics">> >>,
                    <<Num(next), Num(generatedAt), metrics>>))

\* latest === undefined ? 1 : latest + 1
nextVersion(versions) ==
    IF readLatestVersion(versions) = 0 THEN 1 ELSE readLatestVersion(versions) + 1

\* The store after the two writeFileSync of a publish
publish(kind, file, config) ==
    [evals EXCEPT
        !.versions = writeVersion(evals.versions, nextVersion(evals.versions), file),
        !.latestJson = file,
        !.assigned = Append(evals.assigned, nextVersion(evals.versions)),
        !.before = evals.versions,
        !.request = [kind |-> kind, version |-> nextVersion(evals.versions), config |-> config],
        !.loaded = NoLoad,
        !.requests = evals.requests + 1]

\* router.post('/config') with body { project, config }
postConfig ==
    /\ evals.phase = "datalake"
    /\ evals.requests < MaxRequests
    /\ \E config \in ConfigValues :
          evals' = publish("config", configFile(nextVersion(evals.versions), config), config)
    /\ UNCHANGED <<plain, options, names, sessions, store, calls, done, started, now, epoch, contexts, tasks, fetch, last>>

\* router.post('/gen') for sessions that hold units: the generated metrics
\* are persisted as a new version
postGen ==
    /\ evals.phase = "datalake"
    /\ evals.requests < MaxRequests
    /\ \E metrics \in MetricArrays :
          evals' = publish("gen", genFile(nextVersion(evals.versions), now, metrics), metrics)
    /\ UNCHANGED <<plain, options, names, sessions, store, calls, done, started, now, epoch, contexts, tasks, fetch, last>>

\* router.delete('/config') with a version
deleteConfigVersion ==
    /\ evals.phase = "datalake"
    /\ evals.requests < MaxRequests
    /\ readLatestVersion(evals.versions) # 0
    /\ \E versionParam \in 1..readLatestVersion(evals.versions) :
          LET kept == [n \in DOMAIN evals.versions \ {versionParam} |-> evals.versions[n]]
              newLatest == readLatestVersion(kept)
          IN evals' = [evals EXCEPT
                          !.versions = kept,
                          !.latestJson = IF newLatest # 0 THEN kept[newLatest] ELSE NoFile,
                          !.before = evals.versions,
                          !.request = [kind |-> "delete", version |-> versionParam,
                                       config |-> NoFile],
                          !.loaded = NoLoad,
                          !.requests = evals.requests + 1]
    /\ UNCHANGED <<plain, options, names, sessions, store, calls, done, started, now, epoch, contexts, tasks, fetch, last>>

\* router.delete('/config') without a version: the config directory is removed
deleteConfigAll ==
    /\ evals.phase = "datalake"
    /\ evals.requests < MaxRequests
    /\ readLatestVersion(evals.versions) # 0
    /\ evals' = [evals EXCEPT
                    !.versions = [n \in {} |-> NoFile],
                    !.latestJson = NoFile,
                    !.before = evals.versions,
                    !.request = [kind |-> "delete", version |-> 0, config |-> NoFile],
                    !.loaded = NoLoad,
                    !.requests = evals.requests + 1]
    /\ UNCHANGED <<plain, options, names, sessions, store, calls, done, started, now, epoch, contexts, tasks, fetch, last>>

\* router.get('/config') for the project: the response body; versionParam 0
\* stands for no version in the query
getConfig(versions, versionParam) ==
    LET latest == readLatestVersion(versions)
        version == IF versionParam # 0 THEN versionParam ELSE latest
    IN IF latest = 0 THEN Obj(<< <<"ok">>, <<"error">> >>, <<Bool(FALSE), Str(<<"config not found">>)>>)
       ELSE IF versionParam # 0 /\ versionParam > latest
       THEN Obj(<< <<"ok">>, <<"error">> >>, <<Bool(FALSE), Str(<<"requested version not found">>)>>)
       ELSE IF version \notin DOMAIN versions
       THEN Obj(<< <<"ok">>, <<"error">> >>, <<Bool(FALSE), Str(<<"version file missing">>)>>)
       ELSE Obj(<< <<"ok">>, <<"version">>, <<"latest">>, <<"config">> >>,
                <<Bool(TRUE), Num(version), Num(latest), versions[version]>>)

\* Array.isArray(x)
isArray(x) == x.kind = "array"

\* The metrics fetchRemoteMetricsBase makes of a response body, or its error
metricsOf(body) ==
    LET cfg == getKey(body, <<"config">>)
        nested == getKey(cfg, <<"config">>)
    IN IF getKey(body, <<"ok">>) = Bool(FALSE)
       THEN [status |-> "thrown", error |-> getKey(body, <<"error">>).chars, metrics |-> Undefined]
       ELSE IF isArray(getKey(body, <<"metrics">>))
       THEN [status |-> "returned", error |-> <<>>, metrics |-> getKey(body, <<"metrics">>)]
       ELSE IF isArray(getKey(cfg, <<"metrics">>))
       THEN [status |-> "returned", error |-> <<>>, metrics |-> getKey(cfg, <<"metrics">>)]
       ELSE IF isArray(getKey(nested, <<"metrics">>))
       THEN [status |-> "returned", error |-> <<>>, metrics |-> getKey(nested, <<"metrics">>)]
       ELSE IF isArray(cfg)
       THEN [status |-> "returned", error |-> <<>>, metrics |-> cfg]
       ELSE [status |-> "thrown", error |-> <<"No metrics array found in remote config response">>,
             metrics |-> Undefined]

\* fetchRemoteMetricsBase('<project>:latest' | '<project>:<version>', baseUrl);
\* versionSpec 0 stands for latest
fetchRemoteMetricsBase ==
    /\ evals.phase = "datalake"
    /\ evals.loaded = NoLoad
    /\ \E versionSpec \in 0..MaxRequests :
          evals' = [evals EXCEPT
                       !.loaded = [ versionSpec |-> versionSpec, status |-> "loaded",
                                    result |-> metricsOf(getConfig(evals.versions, versionSpec)) ]]
    /\ UNCHANGED <<plain, options, names, sessions, store, calls, done, started, now, epoch, contexts, tasks, fetch, last>>

NextConfig ==
    postConfig \/ postGen \/ deleteConfigVersion \/ deleteConfigAll \/ fetchRemoteMetricsBase
SpecConfig == InitConfig /\ [][NextConfig]_vars

----------------------------------------------------------------------------
(* Observations on finished invocations *)

Entries == 1..Len(done)

\* done[p] ran with no session or replay-set change during it
Settled(p) == done[p].epochStart = done[p].epochEnd /\ done[p].sess = done[p].cur

\* Every invocation of the epoch of done[p], up to done[p], ran alone
Sequential(p) ==
    \A q \in 1..p :
        (done[q].epochEnd = done[p].epochStart \/ done[q].epochStart = done[p].epochStart)
            => Settled(q) /\ ~done[q].overlapped

\* The ordinal K of done[p] among the invocations since the install
Ordinal(p) == Cardinality({q \in 1..p : done[q].epochStart = done[p].epochStart})

\* C1: with N >= 1 records installed for the label, the K-th of a sequence
\* of non-overlapping invocations is matched to record min(K, N) of the
\* list (1-based), at the pre-call peek and at the post-call consume.
C1_SequentialMatch ==
    \A p \in Entries :
        LET d == done[p]
            n == Len(d.list)
            k == Min(Ordinal(p), n)
        IN (Sequential(p) /\ n >= 1) =>
              /\ d.peek.matched /\ d.peek.index = k /\ d.peek.unit = <<d.list[k]>>
              /\ d.post.matched => (d.post.index = k /\ d.post.unit = <<d.list[k]>>)

\* C2: the replay record used for the pre-call argument override of an
\* invocation is the record used for its post-call merge, also when
\* invocations with the same label overlap.
C2_SameRecordPreAndPost ==
    \A p \in Entries :
        LET d == done[p]
        IN (Settled(p) /\ d.peek.matched /\ d.post.matched) => d.peek.unit = d.post.unit

\* C3: an invocation whose label matches an installed replay list advances
\* the cursor of its label by exactly one, whatever the outcome.
C3_CursorAdvancesOnce ==
    \A p \in Entries :
        LET d == done[p]
        IN (Settled(p) /\ d.list # <<>>) => d.cursorAfter = d.cursorBefore + 1

\* The key under which position i (0-based) is captured
keyAt(i) == IF nameAt(names, i) # "" THEN nameAt(names, i) ELSE argKey(i)

\* C4: a parameter whose mode is Trace or None (or that is omitted from the
\* params map) reaches the original with its live value.
C4_OnlyTraceAndReplayOverridden ==
    \A p \in Entries :
        LET d == done[p]
        IN \A i \in 1..Len(d.liveArgs) :
              paramMode(options.params, keyAt(i - 1)) # TraceAndReplay
                  => d.args[i] = d.liveArgs[i]

OverrideApplies(p) ==
    /\ options.return = TraceAndReplay
    /\ options.replayOverrideReturn
    /\ done[p].post.matched
    /\ done[p].post.unit[1].payload.return # Undef

C6_WitnessNoOverride ==
    \E p \in Entries :
        /\ done[p].outcome = "return"
        /\ done[p].post.matched
        /\ done[p].post.unit[1].payload.return # Undef
        /\ ~OverrideApplies(p)
        /\ done[p].returned # done[p].post.unit[1].payload.return

\* What the live call alone would have logged as payload.args
liveCapture(d) ==
    LET m == captureArgs(options.params, names, d.liveArgs, 0)
    IN IF m = EmptyMap THEN NoMap ELSE Some(m)

\* Some of args, vars, return of the emitted record is not the live call's
TakenFromReplay(d) ==
    \/ d.unit.payload.args # liveCapture(d)
    \/ d.unit.payload.vars # d.liveUnit.payload.vars
    \/ d.unit.payload.return # d.liveUnit.payload.return

\* C7: payload.replayed is true exactly when at least one of payload.args,
\* payload.vars, payload.return was taken from a replay record.
C7_ReplayedIffTaken ==
    \A p \in Entries : done[p].unit.payload.replayed <=> TakenFromReplay(done[p])

\* C8: a merge changes at most args, vars, return and replayed: tagId,
\* timestamp (the call's start), session, project, thisArg, error, end and
\* durationMs are those of the live call.
C8_MergeFrame ==
    \A p \in Entries :
        LET d == done[p]
            u == d.unit
            l == d.liveUnit
        IN d.post.matched =>
              /\ u.tagId = d.label
              /\ u.timestamp = l.timestamp /\ u.timestamp + l.payload.durationMs = l.payload.end
              /\ u.session = l.session /\ u.project = l.project
              /\ u.payload.thisArg = l.payload.thisArg
              /\ u.payload.error = l.payload.error
              /\ u.payload.end = l.payload.end
              /\ u.payload.durationMs = l.payload.durationMs

\* A merged record of a failed call with a captured this, whose args came
\* from a replay record with another timestamp
C8_Witness ==
    \E p \in Entries :
        LET d == done[p]
        IN /\ d.post.matched
           /\ d.unit.payload.args # d.liveUnit.payload.args
           /\ d.unit.timestamp # d.post.unit[1].timestamp
           /\ \E q \in Entries : done[q].post.matched /\ done[q].unit.payload.error = ErrorText
           /\ d.unit.payload.thisArg # Undef

\* C9: in the merged record each of args, vars, return is the replay
\* record's when that record has the field, and the live call's otherwise.
C9_MergeFieldwise ==
    \A p \in Entries :
        LET d == done[p]
        IN d.post.matched =>
              LET r == d.post.unit[1].payload
                  l == d.liveUnit.payload
                  u == d.unit.payload
              IN /\ u.args = IF r.args # NoMap THEN r.args ELSE l.args
                 /\ u.vars = IF r.vars # NoMap THEN r.vars ELSE l.vars
                 /\ u.return = IF r.return # Undef THEN r.return ELSE l.return

HasTag(units, tag) == \E i \in 1..Len(units) : units[i].tagId = tag

\* C10: when no installed record carries the live label itself, a record
\* tagged Svc.compute is matched by a call labelled compute, and a record
\* tagged compute is matched by a call labelled Svc.compute.
C10_AliasBothDirections ==
    \A p \in Entries :
        LET d == done[p]
            other == IF d.label = Compute THEN SvcCompute ELSE Compute
        IN (Settled(p) /\ ~HasTag(d.installed, d.label) /\ HasTag(d.installed, other)) =>
              /\ d.peek.matched /\ d.peek.unit[1].tagId = other
              /\ (d.outcome = "return" \/ ~options.async) =>
                    (d.post.matched /\ d.post.unit[1].tagId = other)

\* A call labelled compute was matched, before and after the original, to a
\* record tagged Svc.compute
C10_Witness ==
    \E p \in Entries :
        /\ done[p].label = Compute
        /\ ~HasTag(done[p].installed, Compute)
        /\ done[p].peek.matched /\ done[p].peek.unit[1].tagId = SvcCompute
        /\ done[p].post.matched /\ done[p].post.unit[1].tagId = SvcCompute

\* The other direction: a call labelled Svc.compute matched to a record
\* tagged compute
C10_WitnessQualifiedLabel ==
    \E p \in Entries :
        /\ done[p].label = SvcCompute
        /\ ~HasTag(done[p].installed, SvcCompute)
        /\ done[p].peek.matched /\ done[p].peek.unit[1].tagId = Compute
        /\ done[p].post.matched /\ done[p].post.unit[1].tagId = Compute

----------------------------------------------------------------------------
(* Failures of the original and of the sink *)

C12_SinkFailureSwallowed ==
    \A p \in Entries :
        LET d == done[p]
        IN /\ d.outcome = "throw" => d.raised = Boom
           /\ d.outcome = "return" =>
                 /\ d.raised = NoError
                 /\ d.returned = IF OverrideApplies(p)
                                 THEN d.post.unit[1].payload.return ELSE d.result

----------------------------------------------------------------------------
(* Session visibility across execution branches *)

Sibling(a, b) == a # b /\ tasks[a].parent = tasks[b].parent

\* C14: what a branch observes of its session (which session, its replay
\* index, its cursors) is not changed by an operation of a sibling branch,
\* and a branch sees only a session it started or was created inside.
C14_BranchIsolation ==
    /\ \A t \in 1..Len(last.views) :
          (last.op # "none" /\ Sibling(t, last.branch))
              => view(getInstrumentSession(t)) = last.views[t]
    /\ \A t \in 1..Len(tasks) :
          getInstrumentSession(t) # NoSession => getInstrumentSession(t) \in tasks[t].origin

----------------------------------------------------------------------------
(* Sessions that end while calls are in flight, and operations outside of  *)
(* any session                                                             *)

\* C15: a call hands its record to the sink selected when the call started,
\* also when its session was ended or replaced before the call completed:
\* the record reaches the collector of the session active at call start and
\* carries that session's project and session id.
C15_InFlightKeepsSinkAndSession ==
    \A p \in Entries :
        LET d == done[p]
        IN /\ d.emitted = <<d.unit>>
           /\ d.sink = d.sinkAtStart
           /\ d.sinkAtStart = selectSink(options, d.sess)
           /\ d.sess # NoSession =>
                 /\ d.at # <<>> /\ d.at[1] = d.sess
                 /\ sessions[d.sess].units[d.at[2]] = d.unit
                 /\ d.unit.project = ProjectOf(d.sess)
                 /\ d.unit.session = SessionIdOf(d.sess)

\* A call that completed after its session had been ended
C15_Witness ==
    \E p \in Entries :
        LET d == done[p]
        IN /\ d.sess # NoSession /\ d.storeAtEnd = NoSession
           /\ sessions[d.sess].units[d.at[2]] = d.unit
           /\ d.unit.session = SessionIdOf(d.sess)

\* A call that completed after its session had been replaced by a new one
C15_WitnessReplaced ==
    \E p \in Entries :
        LET d == done[p]
        IN /\ d.sess # NoSession /\ d.storeAtEnd \notin {NoSession, d.sess}
           /\ sessions[d.sess].units[d.at[2]] = d.unit
           /\ sessions[d.storeAtEnd].units = <<>>

\* C16: setInstrumentSessionReplay called when no session was started yet,
\* or after endInstrumentSession, throws, and no session object gets a
\* replay index or cursor table from it.
C16_NoSessionInstallFails ==
    (last.op = "setReplay" /\ last.prev \in {"none", "end"}) =>
        (last.threw /\ replayState = last.before)

\* The call threw after a session that holds a replay set had been ended
C16_Witness ==
    /\ last.op = "setReplay" /\ last.prev = "end" /\ last.threw
    /\ \E s \in 1..Len(sessions) : sessions[s].hasReplay

\* The call threw before any session was started
C16_WitnessNeverStarted ==
    last.op = "setReplay" /\ last.prev = "none" /\ last.threw /\ sessions = <<>>

----------------------------------------------------------------------------
(* Session start with a record store *)

\* C17: when the fetch of startInstrumentSession fails (the endpoint is no
\* valid URL, the connection fails, or the body is not the expected JSON),
\* the call returns normally: the session is the active one, it has no
\* replay set, and the array returned is empty.
C17_FetchFailsSoft ==
    (fetch.phase = "returned" /\ fetch.cause # "") =>
        /\ last.op = "start" /\ ~last.threw
        /\ store = fetch.sess /\ store # NoSession
        /\ ~sessions[fetch.sess].hasReplay /\ sessions[fetch.sess].replay = EmptyMap
        /\ fetch.returned = <<>> /\ sessions[fetch.sess].units = <<>>

\* The call returned after a body whose walk threw behind its first item
C17_Witness ==
    /\ fetch.phase = "returned" /\ fetch.cause = "unexpected body"
    /\ fetch.body[1].malformed /\ fetch.body[1].items # <<>>
    /\ store = fetch.sess

\* The call returned after a connection error, and after an invalid URL
C17_WitnessConnection == fetch.phase = "returned" /\ fetch.cause = "connection error"

C17_WitnessInvalidURL == fetch.phase = "returned" /\ fetch.cause = "invalid url"

\* A well-formed answer does install and preload its units
C17_WitnessLoaded ==
    /\ fetch.phase = "returned" /\ fetch.cause = ""
    /\ sessions[fetch.sess].hasReplay /\ Len(fetch.returned) = 2

\* C18: a startInstrumentSession that has issued its fetch eventually
\* returns, whatever the record store does.
C18_StartReturns == Pending ~> (fetch.phase = "returned")

----------------------------------------------------------------------------
(* Cleared replay sets and emitted records *)

\* done[p] got none of its values from a replay record
Untouched(p) ==
    LET d == done[p]
    IN /\ d.args = d.liveArgs
       /\ d.outcome = "return" => d.returned = d.result
       /\ d.logged \in {Undef, LiveVar}
       /\ ~d.unit.payload.replayed
       /\ d.unit.payload.vars = d.liveUnit.payload.vars

\* C19: a call started after clearInstrumentSessionReplay, with no replay
\* set installed again before it finished, runs on its live arguments,
\* returns the original's value, logs the live values of its variables,
\* and its record is not marked replayed.
C19_NoReplayAfterClear ==
    \A p \in Entries :
        (done[p].clearedAtStart /\ Settled(p)) => Untouched(p)

\* A call overridden from the replay set, then, after the clear, a call
\* that logged a variable and was left untouched
C19_Witness ==
    \E p, q \in Entries :
        /\ p < q /\ done[p].sess = done[q].sess
        /\ done[p].unit.payload.replayed /\ done[p].args # done[p].liveArgs
        /\ done[p].logged = 42
        /\ done[q].clearedAtStart /\ Settled(q) /\ Untouched(q)
        /\ done[q].logged = LiveVar /\ done[q].outcome = "return"

\* After the set was installed again, calls are overridden again
C19_WitnessInstalledAgain ==
    \E p, q \in Entries :
        /\ done[q].id < done[p].id /\ done[q].sess = done[p].sess
        /\ done[q].clearedAtStart /\ Untouched(q)
        /\ ~done[p].clearedAtStart /\ done[p].unit.payload.replayed

\* C20: a record that was handed to the session's collector stays as it
\* was when it was handed over, whatever runs afterwards.
C20_EmittedRecordImmutable ==
    \A p \in Entries :
        LET d == done[p]
        IN d.at # <<>> => sessions[d.at[1]].units[d.at[2]] = d.unit

----------------------------------------------------------------------------
(* Wrappers without a replay set *)

Plains == { q \in 1..Len(plain) : plain[q].phase = "done" }

\* What the caller of a wrapper must get when the original, given args,
\* ended with outcome: the value of the original, or the error it raised
SameOutcome(outcome, args, returned, raised) ==
    IF outcome = "return"
    THEN returned = original(args) /\ raised = NoError
    ELSE returned = Undef /\ raised = Boom

C21_WitnessReplayed ==
    \E q \in Plains :
        /\ plain[q].wrapper = LogInlineWrapper /\ plain[q].replay
        /\ plain[q].outcome = "return" /\ plain[q].returned # original(plain[q].args)

\* An instrument call whose original failed re-raises the error
C21_WitnessInstrumentThrows ==
    \E q \in Plains :
        /\ plain[q].wrapper = InstrumentWrapper
        /\ plain[q].outcome = "throw" /\ plain[q].raised = Boom

----------------------------------------------------------------------------
(* Values that cannot be serialised *)

\* the record of done[p] holds the sentinel for each captured value that
\* JSON.stringify throws on
SentinelsRecorded(d) ==
    /\ \A i \in 1..Len(d.liveArgs) :
          d.liveArgs[i] = Unserializable =>
              /\ d.liveUnit.payload.args # NoMap
              /\ d.liveUnit.payload.args[1][names[i]] = SentinelString
    /\ d.this = Unserializable => d.liveUnit.payload.thisArg = SentinelString
    /\ d.given = Unserializable =>
          /\ d.liveUnit.payload.vars # NoMap
          /\ d.liveUnit.payload.vars[1][VarName].value = SentinelString
    /\ (d.outcome = "return" /\ d.result = Unserializable) =>
          d.liveUnit.payload.return = SentinelString

\* C22: an argument, this value, logged variable or return value whose
\* serialisation fails is recorded as the sentinel string, the record is
\* emitted, logVar hands its value back, and the caller gets what the
\* original returned or raised: no error of the serialisation reaches it.
C22_UnserializableBecomesSentinel ==
    \A p \in Entries :
        LET d == done[p]
        IN /\ SentinelsRecorded(d)
           /\ d.emitted = <<d.liveUnit>>
           /\ d.given # Undef => d.logged = d.given
           /\ d.outcome = "return" => (d.returned = d.result /\ d.raised = NoError)
           /\ d.outcome = "throw" => (d.returned = Undef /\ d.raised = Boom)

\* A call with an unserialisable argument and logged variable returned
\* normally and its record, with both sentinels, is in the session collector
C22_Witness ==
    \E p \in Entries :
        LET d == done[p]
        IN /\ d.liveArgs[1] = Unserializable /\ d.given = Unserializable
           /\ d.outcome = "return" /\ d.returned = d.result
           /\ d.at # <<>>
           /\ sessions[d.at[1]].units[d.at[2]].payload.args[1]["a"] = SentinelString
           /\ sessions[d.at[1]].units[d.at[2]].payload.vars[1][VarName].value = SentinelString

\* The caller gets the unserialisable return value itself, the record the
\* sentinel
C22_WitnessReturn ==
    \E p \in Entries :
        /\ done[p].result = Unserializable /\ done[p].returned = Unserializable
        /\ done[p].liveUnit.payload.return = SentinelString

\* An unserialisable this value
C22_WitnessThis ==
    \E p \in Entries :
        done[p].this = Unserializable /\ done[p].liveUnit.payload.thisArg = SentinelString

\* A function passed as argument or returned is recorded as undefined
C22_WitnessCallback ==
    \E p, q \in Entries :
        /\ done[p].liveArgs[2] = Callback /\ done[p].liveUnit.payload.args[1]["b"] = Undef
        /\ done[q].result = Callback /\ done[q].outcome = "return"
        /\ done[q].liveUnit.payload.return = Undef /\ done[q].returned = Callback

----------------------------------------------------------------------------
(* LogAll labels *)

\* C23: calls of two different methods of a class decorated by LogAll emit
\* records with different tagIds, each TypeName.methodName, and count in
\* different replay cursors.
C23_LogAllLabelsDistinct ==
    \A p, q \in Entries :
        done[p].method # done[q].method =>
            /\ done[p].liveUnit.tagId = <<ClassName, ".", done[p].method>>
            /\ done[p].liveUnit.tagId # done[q].liveUnit.tagId
            /\ done[p].label # done[q].label
            /\ (done[p].cur = done[q].cur /\ p < q /\ done[p].post.matched /\ ~done[q].overlapped)
                   => done[q].cursorBefore = 0

\* The results evaluateAll has pushed so far, each with its metric
Evaluated == IF evals.phase = "none" THEN {} ELSE 1..Len(evals.out)

\* C24: evaluating a metric whose methodology is not registered gives one
\* result with success false and a non-empty error, whatever the records are;
\* evaluateMetric returns it, it does not throw.
C24_UnknownMethodologyIsResult ==
    \A i \in Evaluated :
        evals.metrics[i].methodology \notin DOMAIN REGISTRY
            => /\ evals.out[i].metric = evals.metrics[i].name
               /\ evals.out[i].success = FALSE
               /\ evals.out[i].error # NoMessage

C24_Witness ==
    \E i \in Evaluated :
        /\ evals.metrics[i].methodology = "exact_match"
        /\ evals.out[i].error = <<"Unknown methodology: ", "exact_match">>
        /\ evals.units # <<>>

C24_WitnessInherited ==
    \E i \in Evaluated :
        /\ evals.metrics[i].methodology = "constructor"
        /\ evals.out[i].success = FALSE
        /\ evals.units = <<>>

\* The arrays evaluateAll has returned
Returned == IF evals.phase = "none" THEN {} ELSE 1..Len(evals.runs)

C25_WitnessEmpty ==
    /\ evals.phase = "done"
    /\ evals.metrics = <<>>
    /\ evals.runs[1] = <<>>

\* The payload of the last record of units whose tagId is tag
lastWith(units, tag) ==
    LET is == { i \in 1..Len(units) : getKey(units[i], <<"tagId">>).chars = tag }
    IN getKey(units[CHOOSE i \in is : \A j \in is : j <= i], <<"payload">>)

TagIds(units) == { getKey(units[i], <<"tagId">>).chars : i \in 1..Len(units) }

Resolves(units, tag) ==
    /\ getByPath(buildTagContext(units), returnOf(tag))
           = getKey(lastWith(units, tag), <<"return">>)
    /\ getByPath(buildTagContext(units), argOf(tag, "a"))
           = getKey(getKey(lastWith(units, tag), <<"args">>), <<"a">>)

\* C26: for every tagId T of the records, class-qualified ones (Type.method)
\* included, the path T.return resolves to payload.return of the last record
\* with tagId T and T.args.<name> to that record's argument <name>.
C26_TagPathsResolveToLastRecord ==
    evals.phase = "running" => \A tag \in TagIds(evals.units) : Resolves(evals.units, tag)

\* The same for the tagIds without a dot
C26_PlainTagPathsResolveToLastRecord ==
    evals.phase = "running" =>
        \A tag \in TagIds(evals.units) : Len(tag) = 1 => Resolves(evals.units, tag)

C26_WitnessLastWriter ==
    /\ evals.phase = "running"
    /\ Len(evals.units) = 2
    /\ TagIds(evals.units) = {Compute}
    /\ getByPath(buildTagContext(evals.units), returnOf(Compute)) = Str(<<"c">>)
    /\ getKey(getKey(evals.units[1], <<"payload">>), <<"return">>) # Str(<<"c">>)

\* Claim-side reading of string_match: the text of an input, trimming,
\* containment
IsGiven(inputs, k) ==
    \E i \in 1..Len(inputs) : inputs[i].key = k /\ inputs[i].value.kind \notin {"undefined", "null"}
TextOf(inputs, k, alias) ==
    IF IsGiven(inputs, k) THEN String(input(inputs, k))
    ELSE IF IsGiven(inputs, alias) THEN String(input(inputs, alias))
    ELSE <<>>
Trimmed(s) ==
    LET ink == { k \in 1..Len(s) : s[k] \notin {" ", "\n"} }
    IN IF ink = {} THEN <<>>
       ELSE SubSeq(s, CHOOSE k \in ink : \A j \in ink : k <= j,
                      CHOOSE k \in ink : \A j \in ink : j <= k)
Normalised(s, caseSensitive) == Trimmed(IF caseSensitive THEN s ELSE toLowerCase(s))
Contains(t, e) == \E i \in 0..(Len(t) - Len(e)) : SubSeq(t, i + 1, i + Len(e)) = e

StringMatched == evals.phase = "result" /\ evals.metric.methodology = "string_match"

\* C27: string_match succeeds exactly when the target, trimmed and (unless
\* params.caseSensitive) lower-cased, contains the expected input normalised
\* the same way; a missing or empty expected is contained, giving success
\* with score 1; a failure has score 0.
C27_StringMatchSemantics ==
    StringMatched =>
        LET target == TextOf(evals.inputs, "target", "answer")
            expected == TextOf(evals.inputs, "expected", "reference")
            cs == evals.metric.params.caseSensitive
        IN /\ evals.result.success <=> Contains(Normalised(target, cs), Normalised(expected, cs))
           /\ expected = <<>> => evals.result.success
           /\ evals.result.success => evals.result.score = One
           /\ ~evals.result.success => evals.result.score = Zero

C27_Witness ==
    /\ StringMatched
    /\ ~evals.metric.params.caseSensitive
    /\ evals.inputs = <<[key |-> "target", value |-> Str(<<"A", "b", " ">>)],
                        [key |-> "expected", value |-> Str(<<" ", "B">>)]>>
    /\ evals.result.success
    /\ evals.result.score = One

C27_WitnessCaseSensitive ==
    /\ StringMatched
    /\ evals.metric.params.caseSensitive
    /\ evals.inputs = <<[key |-> "target", value |-> Str(<<"A", "b", " ">>)],
                        [key |-> "expected", value |-> Str(<<" ", "B">>)]>>
    /\ ~evals.result.success
    /\ evals.result.score = Zero

C27_WitnessMissingExpected ==
    /\ StringMatched
    /\ evals.inputs = <<[key |-> "target", value |-> Str(<<"c">>)]>>
    /\ evals.result.success
    /\ evals.result.score = One

\* The names under which each input of a methodology is looked for
InputNames(methodology) ==
    CASE methodology = "string_match" -> << <<"target", "answer">>, <<"expected", "reference">> >>
      [] methodology = "QAG" -> << <<"question", "q">>, <<"answer", "a">>, <<"reference", "expected">> >>
      [] OTHER -> << <<"reference", "expected">>, <<"steps", "plan", "answer">> >>

IsMissing(inputs, ks) == \A i \in 1..Len(ks) : ~IsGiven(inputs, ks[i])

RECURSIVE Flat(_)
Flat(seqs) == IF seqs = <<>> THEN <<>> ELSE Head(seqs) \o Flat(Tail(seqs))

\* The inputs with every missing input given as the empty string
Filled(inputs, methodology) ==
    LET missing == Flat(SelectSeq(InputNames(methodology), LAMBDA ks : IsMissing(inputs, ks)))
    IN SelectSeq(inputs, LAMBDA e : \A i \in 1..Len(missing) : missing[i] # e.key)
       \o [i \in 1..Len(missing) |-> [key |-> missing[i], value |-> Str(<<>>)]]

\* C28: string_match, QAG and DAG return a result, without throwing, for
\* every combination of missing inputs: the result is the one for the inputs
\* with each missing input empty, a scored result that carries no error.
C28_MissingInputsAreEmpty ==
    evals.phase = "result" =>
        /\ evals.result.error = NoMessage
        /\ evals.result.metric = evals.metric.name
        /\ evals.result.score[2] > 0
        /\ evals.result.score[1] \in 0..evals.result.score[2]
        /\ \A llmResp \in LLMResponses :
              evals.result = evaluateWith(evals.metric.methodology, evals.metric,
                                          Filled(evals.inputs, evals.metric.methodology), llmResp)

C28_Witness ==
    /\ evals.phase = "result"
    /\ evals.metric.methodology = "DAG"
    /\ evals.inputs = <<>>
    /\ evals.result.score = Zero
    /\ ~evals.result.success

C28_WitnessQAG ==
    /\ evals.phase = "result"
    /\ evals.metric.methodology = "QAG"
    /\ evals.inputs = <<[key |-> "answer", value |-> Str(<<"a", "b">>)]>>
    /\ evals.result.score = One

C28_WitnessStringMatch ==
    /\ evals.phase = "result"
    /\ evals.metric.methodology = "string_match"
    /\ evals.inputs = <<[key |-> "expected", value |-> Str(<<"c">>)]>>
    /\ ~evals.result.success

\* C29: evaluating the same metrics against the same records twice gives
\* identical results, and an evaluation leaves the metric configs and the
\* records as they were handed over.
C29_EvaluationIdempotent ==
    evals.phase \notin {"none", "inputs", "result"} =>
        /\ \A r \in Returned : evals.runs[r] = evals.runs[1]
        /\ evals.metrics = evals.given.metrics
        /\ evals.units = evals.given.units

C29_Witness ==
    /\ evals.phase = "done"
    /\ Len(evals.runs) = Twice
    /\ evals.runs[2] = evals.runs[1]
    /\ \E i \in 1..Len(evals.metrics) :
          /\ evals.metrics[i].methodology = "DAG"
          /\ evals.runs[2][i].details[1] = << <<"a">>, <<"B">> >>
    /\ Len(evals.units) = 2

RoundTripped == evals.phase = "evaluated"

\* C30: a record emitted to the datalake endpoint, read back by the
\* session-start query for its project and session and then evaluated gives,
\* for every metric, the result that evaluating the emitted record gives.
C30_RoundTripSameResult == RoundTripped => evals.afterwards = evals.direct

\* The paths of a metric that address what the wrapper captured of the call
\* its tag names
Captured(metric, tag) ==
    \A i \in 1..Len(metric.query) :
        metric.query[i].expr \in { returnOf(tag), argOf(tag, "a"), argOf(tag, "b"),
                                   <<"payload", ".", "return">>,
                                   <<"payload", ".", "args", ".", "b">> }

\* The same, for the metrics over captured arguments and return of a record
\* whose tagId is not 'annotations'
C30_RoundTripSameForCaptured ==
    RoundTripped /\ getKey(evals.unit, <<"tagId">>) # Annotations
        /\ Captured(evals.metric, getKey(evals.unit, <<"tagId">>).chars)
        => evals.afterwards = evals.direct

C30_WitnessSame ==
    /\ RoundTripped
    /\ getKey(evals.unit, <<"tagId">>).chars = Compute
    /\ evals.metric.name = "match"
    /\ Captured(evals.metric, Compute)
    /\ Len(evals.units) = 1
    /\ evals.afterwards = evals.direct
    /\ evals.direct.details = << <<"c">>, <<"a", "b">> >>

----------------------------------------------------------------------------
(* Config versions of one project *)

Datalake == evals.phase = "datalake"
Published == Datalake /\ evals.request.kind \in {"config", "gen"}

\* C31: over any sequence of publishes (POST /api/config, POST /api/gen) and
\* deletes (DELETE /api/config) for one project, each publish is assigned a
\* version number strictly greater than every version number assigned
\* before it, so no version number is assigned twice.
C31_VersionsStrictlyIncrease ==
    Datalake => \A i, j \in 1..Len(evals.assigned) :
                    i < j => evals.assigned[i] < evals.assigned[j]

\* What the code does keep: a publish is assigned a number greater than the
\* number of every version file present when it is made
C31_GreaterThanEveryStoredVersion ==
    Published => \A k \in DOMAIN evals.before : k < evals.request.version

\* C32: publishing a new config version leaves every previously published
\* version unchanged: for every existing version K, reading version K
\* returns the same content before and after the publish.
C32_PublishKeepsEarlierVersions ==
    Published =>
        \A k \in DOMAIN evals.before :
            getKey(getConfig(evals.versions, k), <<"config">>)
                = getKey(getConfig(evals.before, k), <<"config">>)

C32_Witness ==
    /\ Published
    /\ DOMAIN evals.before = {1, 2}
    /\ evals.request.version = 3
    /\ evals.versions[3] # evals.versions[2]
    /\ getKey(getConfig(evals.versions, 2), <<"config">>) = evals.before[2]
    /\ getKey(getConfig(evals.versions, 2), <<"ok">>) = Bool(TRUE)

\* The array a published config value carries
publishedArray(config) ==
    IF isArray(config) THEN config ELSE getKey(config, <<"metrics">>)

LoadedPublished ==
    /\ Datalake
    /\ evals.request.kind = "config"
    /\ evals.loaded.status = "loaded"
    /\ evals.loaded.versionSpec \in {0, evals.request.version}

\* C39: a MetricConfig array published with POST /api/config as the config
\* value, as a bare array or as an object { metrics: [...] }, and then loaded
\* with the selector project:latest or project:<version> through
\* fetchRemoteMetricsBase yields exactly the published array.
C39_LoadedIsPublished ==
    LoadedPublished =>
        /\ evals.loaded.result.status = "returned"
        /\ evals.loaded.result.metrics = publishedArray(evals.request.config)

\* The same for the object form { metrics: [...] } alone
C39_LoadedIsPublishedWrapped ==
    LoadedPublished /\ ~isArray(evals.request.config) =>
        /\ evals.loaded.result.status = "returned"
        /\ evals.loaded.result.metrics = publishedArray(evals.request.config)

C39_WitnessWrapped ==
    /\ LoadedPublished
    /\ evals.request.config = Wrapped(MetricArrayTwo)
    /\ evals.loaded.versionSpec = 2
    /\ evals.loaded.result.metrics = MetricArrayTwo

----------------------------------------------------------------------------
(* Replay cursors and emitted records *)

\* The records with tagId label that wrappers whose session was s handed to
\* a sink with replayed = true, as (invocation, position) pairs
replayedRecords(s, label) ==
    { pk \in UNION { { <<p, k>> : k \in 1..Len(done[p].emitted) } : p \in Entries } :
         /\ done[pk[1]].cur = s
         /\ done[pk[1]].emitted[pk[2]].tagId = label
         /\ done[pk[1]].emitted[pk[2]].payload.replayed }

CursorCountsRecords ==
    \A s \in 1..Len(sessions) :
        sessions[s].hasReplay =>
            \A label \in (DOMAIN sessions[s].replayCursor) \cup {options.label} :
                cursorOf(sessions[s], label) = Cardinality(replayedRecords(s, label))

\* C33: at every moment the replay cursor for label X equals the number of
\* records with tagId X emitted with replayed = true since the replay set
\* was last installed; no wrapper advances a cursor without emitting a
\* record.
C33_CursorAdvancesOnlyWithRecord == CursorCountsRecords

\* The same where only calls of the decorated method are made
C33_CursorCountsRecordsOfLogMethod == plain = <<>> => CursorCountsRecords

C33_WitnessLogMethod ==
    /\ plain = <<>>
    /\ \E s \in 1..Len(sessions) :
          /\ sessions[s].hasReplay
          /\ cursorOf(sessions[s], options.label) = 2
          /\ Cardinality(replayedRecords(s, options.label)) = 2

----------------------------------------------------------------------------
(* Exact records before alias records *)

\* The installed set of done[p] holds a record whose tagId is the live label
HasExact(p) ==
    \E k \in 1..Len(done[p].installed) : done[p].installed[k].tagId = done[p].label

\* C34: when the installed replay set contains records whose tagId equals
\* the live label, the record matched for a call with that label has tagId
\* equal to the live label; records reachable only through the alias key
\* are used only when no record has exactly that tagId.
C34_ExactBeforeAlias ==
    \A p \in Entries :
        HasExact(p) =>
            /\ done[p].peek.matched => done[p].peek.unit[1].tagId = done[p].label
            /\ done[p].post.matched => done[p].post.unit[1].tagId = done[p].label

\* The same for a live label that is qualified (Class.method), which no
\* alias key equals
C34_ExactBeforeAliasQualified ==
    \A p \in Entries :
        HasExact(p) /\ includes(done[p].label, ".") =>
            /\ done[p].peek.matched => done[p].peek.unit[1].tagId = done[p].label
            /\ done[p].post.matched => done[p].post.unit[1].tagId = done[p].label

C34_WitnessQualified ==
    \E p \in Entries :
        /\ HasExact(p) /\ done[p].label = SvcCompute
        /\ done[p].post.matched /\ done[p].post.unit = <<RU1>>
        /\ done[p].installed = <<RU3, RU1>>

----------------------------------------------------------------------------
(* Records handed to the sink per invocation *)

\* C35: every invocation of a LogMethod-wrapped callable passes exactly one
\* record to its sink, whether the original returns, throws, resolves or
\* rejects, and whatever the sink does.
C35_ExactlyOneRecord == \A p \in Entries : Len(done[p].emitted) = 1

\* What the wrapper does: one record, and a second one when the sink threw
\* on the record of an original that returned or resolved
C35_RecordsPerOutcome ==
    \A p \in Entries :
        Len(done[p].emitted) =
            IF done[p].raised = SinkError /\ done[p].outcome = "return" THEN 2 ELSE 1

C35_WitnessRejected ==
    \E p \in Entries :
        /\ options.async /\ done[p].outcome = "throw"
        /\ done[p].raised = SinkError /\ Len(done[p].emitted) = 1

----------------------------------------------------------------------------
(* Logged variables and the record of the call that logged them *)

\* payload.vars of a record whose call logged value under VarName and
\* nothing else
onlyVar(value) == Some([k \in {VarName} |-> [value |-> toJSONish(value), at |-> "v@loc"]])

\* C36: with no replay set installed, a value logged with logVar inside an
\* instrumented call is recorded under its name in payload.vars of the
\* record of that call, the innermost enclosing one, and never in the
\* record of another call, also when several async calls interleave.
C36_LoggedInOwnRecord ==
    \A p \in Entries :
        done[p].installed = <<>> =>
            done[p].unit.payload.vars =
                IF done[p].given = Undef THEN NoMap ELSE onlyVar(done[p].given)

\* Two asynchronous calls in flight together; the one started first logged
\* a variable, the other did not
C36_Witness ==
    \E p, q \in Entries :
        /\ options.async
        /\ done[p].id < done[q].id
        /\ done[p].overlapped /\ done[q].overlapped
        /\ done[p].installed = <<>> /\ done[q].installed = <<>>
        /\ done[p].given = LiveVar /\ done[p].unit.payload.vars = onlyVar(LiveVar)
        /\ done[q].given = Undef /\ done[q].unit.payload.vars = NoMap

----------------------------------------------------------------------------
(* The value logVar hands back *)

\* C37: logVar returns the value it was given, unchanged, in every context:
\* inside or outside an instrumented call, with or without a replay set
\* installed.
C37_LogVarReturnsItsArgument ==
    \A p \in Entries : done[p].given # Undef => done[p].logged = done[p].given

\* The same for the calls that ran with no replay set installed
C37_LogVarReturnsItsArgumentLive ==
    \A p \in Entries :
        done[p].given # Undef /\ done[p].installed = <<>> => done[p].logged = done[p].given

C37_WitnessLive ==
    \E p \in Entries :
        /\ done[p].installed = <<>> /\ done[p].sess # NoSession
        /\ done[p].given = LiveVar /\ done[p].logged = LiveVar

----------------------------------------------------------------------------
(* The installed records *)

----------------------------------------------------------------------------
(* The overriding return value and the emitted record *)

\* The return override was applied to done[p]
Overridden(p) ==
    /\ done[p].outcome = "return" /\ done[p].raised = NoError
    /\ done[p].post.matched
    /\ options.return = TraceAndReplay /\ options.replayOverrideReturn
    /\ done[p].post.unit[1].payload.return # Undef

\* C40: whenever the return override is applied to an invocation, the value
\* returned to the caller equals payload.return of the record emitted for
\* that invocation, for every replay return value including null.
C40_ReturnedIsRecordedReturn ==
    \A p \in Entries : Overridden(p) => done[p].returned = done[p].unit.payload.return

\* The same for the replay return values other than null
C40_ReturnedIsRecordedReturnNonNull ==
    \A p \in Entries :
        Overridden(p) /\ done[p].post.unit[1].payload.return # Null
            => done[p].returned = done[p].unit.payload.return

C40_WitnessNonNull ==
    \E p \in Entries :
        /\ Overridden(p) /\ done[p].post.unit = <<RU1>>
        /\ done[p].returned = 7 /\ done[p].unit.payload.return = 7
        /\ done[p].result # 7

====
